---- MODULE Spec2Model ----
(***************************************************************************)
(* A model of the AXIS tool chain: the two-pass x86-64 assembler with      *)
(* branch relaxation (assembler.py), the relocation patcher and ELF writer *)
(* (compilation_pipeline.py, executable_format_generator.py), the          *)
(* indentation lexer (tokenization_engine.py), the frame layout of the     *)
(* semantic analyzer (semantic_analyzer.py) and the function ordering of   *)
(* the code generator (code_generator.py).                                 *)
(***************************************************************************)
EXTENDS Integers, Sequences, FiniteSets, TLC

VARIABLES
    \* ---- assembler (class Assembler) and the assembly text it is given
    pc,                   \* position of the tool chain
    asm_lines,            \* CodeGenerator.asm_lines: the assembly program
    enable_relaxation,    \* argument of assemble_code
    labels,               \* Assembler.labels: label -> address
    jump_forms,           \* Assembler.jump_forms: instruction index -> form
    current_address,      \* Assembler.current_address
    current_instr_index,  \* Assembler.current_instr_index
    string_relocations,   \* Assembler.string_relocations: <<offset, label>>
    iteration,            \* iterations of the relaxation loop run so far
    converged,            \* the loop left through its break
    machine_code,         \* bytes returned by _generate_code
    emitted,              \* per emitted instruction: line, address, length
    recorded,             \* line -> index and form recorded by the last iteration,
                          \* and the index of the line in the label re-walk
    \* ---- compilation pipeline (CompilationPipeline, CodeGenerator, ELF64Writer)
    phase,                \* position of the pipeline
    functions,            \* Program.functions: name and body, in source order
    string_data,          \* CodeGenerator.string_data, in insertion order
    needs_read_failed_flag, \* CodeGenerator.needs_read_failed_flag
    rodata,               \* bytes of the read-only data
    string_offsets,       \* label -> offset in rodata
    bss_size,             \* bss_size handed to the ELF writer
    executable,           \* bytes of the output file
    rodata_vaddr,         \* returned by ELF64Writer.generate
    bss_vaddr,            \* returned by ELF64Writer.generate
    \* ---- lexer (class Lexer)
    lex,                  \* position of tokenize()
    source,               \* Lexer.source, a sequence of characters
    pos,                  \* Lexer.pos
    lex_line,             \* Lexer.line
    lex_column,           \* Lexer.column
    indent_stack,         \* Lexer.indent_stack
    at_line_start,        \* Lexer.at_line_start
    pending_tokens,       \* Lexer.pending_tokens
    tokens,               \* the list tokenize() builds (token types)
    \* ---- semantic analyzer (class SemanticAnalyzer), frame layout
    sema,                 \* position of analyze_function
    current_stack_offset, \* SemanticAnalyzer.current_stack_offset
    scope_depth,          \* number of open scopes
    symbols,              \* the symbols defined in the function, in order
    stack_size,           \* stack_size of the function being (or last) analyzed
    analyzed_functions,   \* functions with Function.analyzed set
    \* ---- command line driver (main, CompilationPipeline.compile_file)
    drv,                  \* position of main()
    command,              \* the command given: run, build, or none (auto)
    mode,                 \* Program.mode of the source
    printed,              \* warnings and error reports written so far
    exit_code,            \* the value main() returns
    fault,                \* the stage whose error the source provokes
    encodings,            \* per generated assembly line: what the encoder returns
    line_no,              \* line reached by the final pass
    build_code,           \* lines whose bytes went into the machine code
    output_written,       \* the output binary exists
    \* ---- interpreter (class Interpreter, InterpreterState)
    script,               \* the Program handed to Interpreter.run
    frames,               \* the blocks being executed, innermost last
    variables,            \* InterpreterState.variables
    call_depth,           \* InterpreterState.call_depth
    calls,                \* the calls completed so far: environment and depth
    \* ---- one operation, interpreted and compiled
    eval,                 \* position of the comparison
    operator,             \* the operator applied
    operand_type,         \* declared type of the operands and of the result
    left,                 \* value of the left (or only) operand
    right,                \* value of the right operand
    interpreted,          \* the value the interpreter stores
    compiled,             \* the value the compiled code stores and loads back
    \* ---- the semantic analyzer, statement by statement
    analysis,             \* position of SemanticAnalyzer.analyze
    return_type,          \* current_function.return_type
    blocks,               \* the function and blocks being analyzed, innermost last
    scopes,               \* the chain of Scope.symbols, global scope first
    in_loop,              \* SemanticAnalyzer.in_loop
    semantic_error,       \* message of the SemanticError raised, if any
    analyzed,             \* the statement analyzed last, with its annotations
    \* ---- the code generator, statement by statement (class CodeGenerator)
    gen,                  \* position of the code generator
    current_function,     \* CodeGenerator.current_function: the analyzed Function
    body_code,            \* the lines of the body compiled so far
    label_counter,        \* CodeGenerator.label_counter
    loop_stack,           \* CodeGenerator.loop_stack
    nesting,              \* the statements being compiled, innermost last
    reg_alloc,            \* CodeGenerator.reg_alloc, a RegisterAllocator
    returned              \* what the last call returned or compiled

asmVars == <<pc, asm_lines, enable_relaxation, labels, jump_forms,
             current_address, current_instr_index, string_relocations,
             iteration, converged, machine_code, emitted, recorded>>

linkVars == <<phase, functions, string_data, needs_read_failed_flag, rodata,
              string_offsets, bss_size, executable, rodata_vaddr, bss_vaddr>>

lexVars == <<lex, source, pos, lex_line, lex_column, indent_stack, at_line_start,
             pending_tokens, tokens>>

semaVars == <<sema, current_stack_offset, scope_depth, symbols, stack_size,
              analyzed_functions>>

driverVars == <<drv, command, mode, printed, exit_code>>

buildVars == <<fault, encodings, line_no, build_code, output_written>>

\* the command line driver and what it runs
interpVars == <<script, frames, variables, call_depth, calls>>

evalVars == <<eval, operator, operand_type, left, right, interpreted, compiled>>

\* the components explored on their own
checkVars == <<analysis, return_type, blocks, scopes, in_loop, semantic_error,
               analyzed>>

genVars == <<gen, current_function, body_code, label_counter, loop_stack, nesting, reg_alloc,
             returned>>

unitVars == <<evalVars, checkVars, genVars>>

toolVars == <<driverVars, buildVars, interpVars, unitVars>>

\* everything but the operation being compared
notEvalVars ==
    <<asmVars, linkVars, lexVars, semaVars, driverVars, buildVars, interpVars, checkVars,
      genVars>>

\* everything but the statement-level analyzer
notCheckVars ==
    <<asmVars, linkVars, lexVars, semaVars, driverVars, buildVars, interpVars, evalVars,
      genVars>>

\* everything but the statement-level code generator and its output
notGenVars ==
    <<pc, enable_relaxation, labels, jump_forms, current_address, current_instr_index,
      string_relocations, iteration, converged, machine_code, emitted, recorded,
      linkVars, lexVars, semaVars, driverVars, buildVars, interpVars, evalVars, checkVars>>

\* the front end, which the assembler and the pipeline below do not touch
frontVars == <<lexVars, semaVars, toolVars>>

\* everything the assembler does not touch
notAsmVars == <<linkVars, frontVars>>

vars == <<asmVars, linkVars, lexVars, semaVars, toolVars>>

----------------------------------------------------------------------------
(* Bounds of the explored assembly programs *)
MaxJumps == 3
MaxNopRuns == 1

LabelNames == {"f", "end"}
NopRunLengths == {122, 127, 128}

max_iterations == 10

----------------------------------------------------------------------------
(* Assembly lines.  A "nop" item stands for n consecutive `nop` lines. *)
LabelLine(l)  == [op |-> "label", arg |-> l, n |-> 0]
JmpLine(l)    == [op |-> "jmp",   arg |-> l, n |-> 0]
JccLine(l)    == [op |-> "jne",   arg |-> l, n |-> 0]
JleLine(l)    == [op |-> "jle",   arg |-> l, n |-> 0]
NopLines(k)   == [op |-> "nop",   arg |-> "", n |-> k]
\* `movabs <reg64>, @<label>` with n the number of the destination register
MovabsLine(reg, l) == [op |-> "movabs", arg |-> l, n |-> reg]
\* `mov <reg64>, <imm>` with arg the register and n the immediate
MovImmLine(reg, imm) == [op |-> "mov", arg |-> reg, n |-> imm]
\* any other instruction, by its text
InsnLine(text) == [op |-> "insn", arg |-> text, n |-> 0]

\* the mnemonics of the `is_jump` list that the modelled programs use
IsJump(line) == line.op \in {"jmp", "jne", "jle"}

Fits8(offset) == -128 <= offset /\ offset <= 127

\* offset & 0xFF
Low8(offset) == offset % 256

\* list(offset.to_bytes(4, 'little', signed=True))
SignedLE32(offset) ==
    IF offset >= 0
    THEN << offset % 256, (offset \div 256) % 256,
            (offset \div 65536) % 256, (offset \div 16777216) % 256 >>
    ELSE LET m == offset + 2147483647 + 1
         IN << m % 256, (m \div 256) % 256,
               (m \div 65536) % 256, ((m \div 16777216) % 256) + 128 >>

Repeat(b, k) == [i \in 1..k |-> b]

FormAt(forms, idx, default) ==
    IF idx \in DOMAIN forms THEN forms[idx] ELSE default

\* Assembler.assemble_jmp_call for operation 'jmp' and a label target,
\* followed by the `or []` of Assembler.assemble
AssembleJmp(target, lbls, addr, forms, idx) ==
    IF target \in DOMAIN lbls
    THEN IF FormAt(forms, idx, "near") = "short"
         THEN LET offset == lbls[target] - (addr + 2)
              IN IF Fits8(offset) THEN <<235, Low8(offset)>> ELSE << >>
         ELSE <<233>> \o SignedLE32(lbls[target] - (addr + 5))
    ELSE <<233, 0, 0, 0, 0>>

\* jmp_codes of assemble_conditional_jmp: 'jne' -> 0x85, 'jle' -> 0x8E
JmpCode(operation) == IF operation = "jne" THEN 133 ELSE 142

\* Assembler.assemble_conditional_jmp for a label target
AssembleJcc(operation, target, lbls, addr, forms, idx) ==
    LET opcode == JmpCode(operation)
    IN  IF target \in DOMAIN lbls
        THEN LET offset == lbls[target] - (addr + 2)
             IN IF FormAt(forms, idx, "near") = "short" /\ Fits8(offset)
                THEN <<opcode - 16, Low8(offset)>>
                ELSE <<15, opcode>> \o SignedLE32(lbls[target] - (addr + 6))
        ELSE <<15, opcode, 0, 0, 0, 0>>

\* Assembler.assemble_movabs with an @label source: REX.W(+B), B8+r, 8 zero bytes
AssembleMovabs(reg) ==
    << 72 + (IF reg >= 8 THEN 1 ELSE 0), 184 + (reg % 8) >> \o Repeat(0, 8)

\* Assembler.reg64, for the registers the generator names
Reg64(name) ==
    CASE name = "rax" -> 0 [] name = "rdx" -> 2 [] name = "rsi" -> 6
      [] name = "rdi" -> 7 [] name = "r11" -> 11

\* struct.pack('<Q', v) / v.to_bytes(8, 'little') for 0 <= v < 2^31
LE64(v) ==
    << v % 256, (v \div 256) % 256, (v \div 65536) % 256,
       (v \div 16777216) % 256, 0, 0, 0, 0 >>

\* Assembler.assemble_mov, immediate into a 64-bit register: REX.W, B8+r, imm64
AssembleMovImm(reg, imm) == << 72, 184 + Reg64(reg) >> \o LE64(imm)

\* the encodings Assembler.assemble gives the fixed instructions of the generator
InsnBytes(text) ==
    CASE text = "push rbp" -> <<85>>
      [] text = "mov rbp, rsp" -> <<72, 137, 229>>
      [] text = "pop rbp" -> <<93>>
      [] text = "ret" -> <<195>>
      [] text = "syscall" -> <<15, 5>>
      [] text = "movzx eax, byte [r11]" -> <<65, 15, 182, 3>>
      [] text = "movzx eax, byte [rsp]" -> <<15, 182, 4, 36>>
      [] text = "sub rsp, 8" -> <<72, 131, 236, 8>>
      [] text = "add rsp, 8" -> <<72, 131, 196, 8>>
      [] text = "xor eax, eax" -> <<49, 192>>
      [] text = "xor edi, edi" -> <<49, 255>>
      [] text = "mov rsi, rsp" -> <<72, 137, 230>>
      [] text = "mov edx, 1" -> <<186, 1, 0, 0, 0>>
      [] text = "mov eax, -1" -> <<184, 255, 255, 255, 255>>
      [] text = "test rax, rax" -> <<72, 133, 192>>
      [] text = "mov byte [r11], 0" -> <<65, 198, 3, 0>>
      [] text = "mov byte [r11], 1" -> <<65, 198, 3, 1>>
      [] OTHER -> << >>

\* Assembler.assemble on one instruction line (labels are handled by the walks)
Assemble(line, lbls, addr, forms, idx) ==
    CASE line.op = "jmp" -> AssembleJmp(line.arg, lbls, addr, forms, idx)
      [] line.op \in {"jne", "jle"} ->
            AssembleJcc(line.op, line.arg, lbls, addr, forms, idx)
      [] line.op = "nop" -> Repeat(144, line.n)
      [] line.op = "movabs" -> AssembleMovabs(line.n)
      [] line.op = "mov" -> AssembleMovImm(line.arg, line.n)
      [] line.op = "insn" -> InsnBytes(line.arg)
      [] OTHER -> << >>

\* side effect of assemble_movabs: string_relocations.append((current_address + 2, label))
Relocate(relocs, line, addr) ==
    IF line.op = "movabs" THEN Append(relocs, <<addr + 2, line.arg>>) ELSE relocs

\* number of source lines an item stands for
LineCount(line) == IF line.op = "nop" THEN line.n ELSE 1

----------------------------------------------------------------------------
(* The walks of assemble_code.  Each walk is a left-to-right fold over the  *)
(* lines, carried in a record w.  Addresses are never negative; the test    *)
(* `next.addr >= 0` in the folds only makes TLC evaluate a line's effect    *)
(* before it moves to the next line.                                        *)

\* advance of current_address / current_instr_index after `if bytecode:`
Advance(w, line, bytecode) ==
    IF Len(bytecode) > 0
    THEN [w EXCEPT !.addr = @ + Len(bytecode), !.idx = @ + LineCount(line),
                   !.relocs = Relocate(@, line, w.addr)]
    ELSE w

\* pass 1 (label collection), one line
CollectLine(w, line) ==
    IF line.op = "label"
    THEN IF line.arg \in DOMAIN w.labels
         THEN w       \* duplicate label: warning, first definition kept
         ELSE [w EXCEPT !.labels = (line.arg :> w.addr) @@ w.labels]
    ELSE Advance(w, line, Assemble(line, w.labels, w.addr, w.forms, w.idx))

RECURSIVE CollectFrom(_, _, _)
CollectFrom(lines, i, w) ==
    IF i > Len(lines) THEN w
    ELSE LET next == CollectLine(w, lines[i])
         IN IF next.addr >= 0 THEN CollectFrom(lines, i + 1, next) ELSE next

\* the form chosen for one label-targeted jump in a relaxation iteration
ChooseForm(line, lbls, addr, forms, idx) ==
    LET current_form == FormAt(forms, idx, "short")
        instr_len == IF current_form = "short" THEN 2
                     ELSE IF line.op = "jmp" THEN 5 ELSE 6
        offset == lbls[line.arg] - (addr + instr_len)
    IN  IF current_form = "near" THEN "near"
        ELSE IF Fits8(offset) THEN "short"
        ELSE "near"

\* relaxation iteration, form recomputation, one line (i is the line number)
RelaxLine(w, line, i, lbls, forms) ==
    IF line.op = "label" THEN w
    ELSE LET relaxed == IsJump(line) /\ line.arg \in DOMAIN lbls
             form == ChooseForm(line, lbls, w.addr, forms, w.idx)
             w1 == IF relaxed
                   THEN [w EXCEPT
                           !.forms = (w.idx :> form) @@ w.forms,
                           !.rec = (i :> [idx |-> w.idx, form |-> form]) @@ w.rec]
                   ELSE w
         IN Advance(w1, line, Assemble(line, lbls, w.addr, forms, w.idx))

RECURSIVE RelaxFrom(_, _, _, _, _)
RelaxFrom(lines, i, w, lbls, forms) ==
    IF i > Len(lines) THEN w
    ELSE LET next == RelaxLine(w, lines[i], i, lbls, forms)
         IN IF next.addr >= 0 THEN RelaxFrom(lines, i + 1, next, lbls, forms) ELSE next

\* label re-walk, one line: the table is rebuilt from empty, last definition
\* wins; rec notes the index under which assemble looks a jump's form up
ReWalkLine(w, line, i) ==
    IF line.op = "label"
    THEN [w EXCEPT !.labels = (line.arg :> w.addr) @@ w.labels]
    ELSE LET w1 == IF IsJump(line) THEN [w EXCEPT !.rec = (i :> w.idx) @@ w.rec]
                   ELSE w
         IN Advance(w1, line, Assemble(line, w.labels, w.addr, w.forms, w.idx))

RECURSIVE ReWalkFrom(_, _, _)
ReWalkFrom(lines, i, w) ==
    IF i > Len(lines) THEN w
    ELSE LET next == ReWalkLine(w, lines[i], i)
         IN IF next.addr >= 0 THEN ReWalkFrom(lines, i + 1, next) ELSE next

EmptyMap == [k \in {} |-> 0]

Walker(lbls, forms, relocs) ==
    [addr |-> 0, idx |-> 0, labels |-> lbls, forms |-> forms, relocs |-> relocs,
     rec |-> EmptyMap, code |-> << >>, out |-> << >>]

\* one iteration of the relaxation loop: new forms, then the re-walk
RelaxOnce(lines, lbls, forms, relocs) ==
    LET r == RelaxFrom(lines, 1, Walker(lbls, EmptyMap, relocs), lbls, forms)
        v == ReWalkFrom(lines, 1, Walker(EmptyMap, r.forms, r.relocs))
    IN [forms |-> r.forms,
        rec |-> [i \in DOMAIN r.rec |->
                    [idx |-> r.rec[i].idx, form |-> r.rec[i].form, rewalk |-> v.rec[i]]],
        labels |-> v.labels, addr |-> v.addr, idx |-> v.idx, relocs |-> v.relocs]

\* _generate_code, one line: a label line goes through Assembler.assemble,
\* which stores the label and returns [], and [] is not None
GenerateLine(w, line, i) ==
    IF line.op = "label"
    THEN [w EXCEPT !.labels = (line.arg :> w.addr) @@ w.labels,
                   !.idx = @ + 1]
    ELSE LET bytecode == Assemble(line, w.labels, w.addr, w.forms, w.idx)
         IN [w EXCEPT !.code = @ \o bytecode,
                      !.out = Append(@, [line |-> i, addr |-> w.addr, len |-> Len(bytecode),
                                         idx |-> w.idx]),
                      !.relocs = Relocate(@, line, w.addr),
                      !.addr = @ + Len(bytecode),
                      !.idx = @ + LineCount(line)]

RECURSIVE GenerateFrom(_, _, _)
GenerateFrom(lines, i, w) ==
    IF i > Len(lines) THEN w
    ELSE LET next == GenerateLine(w, lines[i], i)
         IN IF next.addr >= 0 THEN GenerateFrom(lines, i + 1, next) ELSE next

----------------------------------------------------------------------------
(* The assembly programs explored by Spec: labels, jumps and nop sleds.     *)

CountOp(lines, ops) == Cardinality({i \in 1..Len(lines) : lines[i].op \in ops})

DefinedLabels(lines) == {lines[i].arg : i \in {j \in 1..Len(lines) : lines[j].op = "label"}}

\* the jumps of the explored programs: jmp to either label, jne backwards to f
JumpLines == {JmpLine(l) : l \in LabelNames} \cup {JccLine("f")}

\* CodeGenerator.emit / emit_label: one more line of assembly text
EmitLine ==
    /\ pc = "codegen"
    /\ \E line \in {LabelLine(l) : l \in LabelNames \ DefinedLabels(asm_lines)}
                   \cup (IF CountOp(asm_lines, {"jmp", "jne"}) < MaxJumps
                         THEN JumpLines
                         ELSE {})
                   \cup (IF CountOp(asm_lines, {"nop"}) < MaxNopRuns
                            /\ (asm_lines = << >> \/ asm_lines[Len(asm_lines)].op # "nop")
                         THEN {NopLines(k) : k \in NopRunLengths}
                         ELSE {}) :
          asm_lines' = Append(asm_lines, line)
    /\ UNCHANGED <<pc, enable_relaxation, labels, jump_forms, current_address,
                   current_instr_index, string_relocations, iteration, converged,
                   machine_code, emitted, recorded, notAsmVars>>

\* assemble_code, pass 1: reset, collect the labels
AssembleCode(enable) ==
    /\ pc = "codegen"
    /\ asm_lines # << >>
    /\ LET w == CollectFrom(asm_lines, 1, Walker(EmptyMap, EmptyMap, << >>))
       IN /\ labels' = w.labels
          /\ current_address' = w.addr
          /\ current_instr_index' = w.idx
          /\ string_relocations' = w.relocs
    /\ jump_forms' = EmptyMap
    /\ enable_relaxation' = enable
    /\ iteration' = 0
    /\ converged' = FALSE
    /\ pc' = IF enable THEN "relax" ELSE "generate"
    /\ UNCHANGED <<asm_lines, machine_code, emitted, recorded, notAsmVars>>

\* a loop exit that does not compare the tables (leaves after one iteration)
ConvergesAtOnce(new_forms, old_forms) == TRUE

\* `if self.jump_forms == old_jump_forms: break`
Converges(new_forms, old_forms) == new_forms = old_forms

\* a loop that ignores its break and always runs the full range
RunsFullRange(same, done) == done = max_iterations

\* the loop is left through `break` or when range(max_iterations) is exhausted
LoopExits(same, done) == same \/ done = max_iterations

\* one iteration of the loop `for iteration in range(max_iterations)`
RelaxIteration ==
    /\ pc = "relax"
    /\ iteration < max_iterations
    /\ LET r == RelaxOnce(asm_lines, labels, jump_forms, string_relocations)
       IN /\ jump_forms' = r.forms
          /\ labels' = r.labels
          /\ current_address' = r.addr
          /\ current_instr_index' = r.idx
          /\ string_relocations' = r.relocs
          /\ recorded' = r.rec
          /\ converged' = Converges(r.forms, jump_forms)
          /\ pc' = IF LoopExits(Converges(r.forms, jump_forms), iteration + 1)
                   THEN "generate" ELSE "relax"
    /\ iteration' = iteration + 1
    /\ UNCHANGED <<asm_lines, enable_relaxation, machine_code, emitted, notAsmVars>>

\* a final pass that keeps the entries of the earlier passes
KeepRelocations(relocs) == relocs

\* `self.string_relocations = []  # Reset for final pass`
FinalPassRelocations(relocs) == << >>

\* _generate_code: the final pass
GenerateCode ==
    /\ pc = "generate"
    /\ LET w == GenerateFrom(asm_lines, 1,
                    Walker(labels, jump_forms, FinalPassRelocations(string_relocations)))
       IN /\ machine_code' = w.code
          /\ emitted' = w.out
          /\ labels' = w.labels
          /\ current_address' = w.addr
          /\ current_instr_index' = w.idx
          /\ string_relocations' = w.relocs
    /\ pc' = "done"
    /\ UNCHANGED <<asm_lines, enable_relaxation, jump_forms, iteration, converged,
                   recorded, notAsmVars>>

InitAssembler ==
    /\ pc = "codegen"
    /\ asm_lines = << >>
    /\ enable_relaxation = TRUE
    /\ labels = EmptyMap
    /\ jump_forms = EmptyMap
    /\ current_address = 0
    /\ current_instr_index = 0
    /\ string_relocations = << >>
    /\ iteration = 0
    /\ converged = FALSE
    /\ machine_code = << >>
    /\ emitted = << >>
    /\ recorded = EmptyMap

\* the pipeline at rest: the assembler is driven directly
IdleLink ==
    /\ phase = "idle"
    /\ functions = << >>
    /\ string_data = << >>
    /\ needs_read_failed_flag = FALSE
    /\ rodata = << >>
    /\ string_offsets = EmptyMap
    /\ bss_size = 0
    /\ executable = << >>
    /\ rodata_vaddr = 0
    /\ bss_vaddr = 0

\* the lexer at rest
IdleLex ==
    /\ lex = "idle"
    /\ source = << >>
    /\ pos = 0
    /\ lex_line = 1
    /\ lex_column = 1
    /\ indent_stack = <<0>>
    /\ at_line_start = TRUE
    /\ pending_tokens = << >>
    /\ tokens = << >>

\* the semantic analyzer at rest
IdleSema ==
    /\ sema = "idle"
    /\ current_stack_offset = 0
    /\ scope_depth = 0
    /\ symbols = << >>
    /\ stack_size = 0
    /\ analyzed_functions = 0

\* the driver at rest: the components are driven directly
IdleDriver ==
    /\ drv = "idle"
    /\ command = "none"
    /\ mode = "compile"
    /\ printed = << >>
    /\ exit_code = "None"
    /\ fault = "none"
    /\ encodings = << >>
    /\ line_no = 0
    /\ build_code = << >>
    /\ output_written = FALSE

\* the interpreter at rest
IdleInterp ==
    /\ script = [statements |-> << >>, functions |-> EmptyMap]
    /\ frames = << >>
    /\ variables = EmptyMap
    /\ call_depth = 0
    /\ calls = {}

\* no operation under comparison
IdleEval ==
    /\ eval = "idle"
    /\ operator = "+"
    /\ operand_type = "i32"
    /\ left = 0
    /\ right = 0
    /\ interpreted = [kind |-> "none", v |-> 0]
    /\ compiled = [kind |-> "none", v |-> 0]

\* SemanticAnalyzer.__init__: no scope, no function, in_loop = 0
IdleCheck ==
    /\ analysis = "idle"
    /\ return_type = "None"
    /\ blocks = << >>
    /\ scopes = << >>
    /\ in_loop = 0
    /\ semantic_error = ""
    /\ analyzed = [kind |-> "none"]

\* RegisterAllocator.TEMP_REGS_64
TEMP_REGS_64 == <<"r12", "r13", "r14", "r15", "rbx">>

\* RegisterAllocator.__init__ and reset
NewAllocator ==
    [free_regs |-> TEMP_REGS_64, used_regs |-> {}, saved_regs |-> {}, spill_count |-> 0]

\* CodeGenerator.__init__: no function, no label, no loop
IdleGen ==
    /\ gen = "idle"
    /\ current_function = [name |-> "None"]
    /\ body_code = << >>
    /\ label_counter = 0
    /\ loop_stack = << >>
    /\ nesting = << >>
    /\ reg_alloc = NewAllocator
    /\ returned = [kind |-> "none"]

IdleTools == IdleDriver /\ IdleInterp /\ IdleEval /\ IdleCheck /\ IdleGen

Init == InitAssembler /\ IdleLink /\ IdleLex /\ IdleSema /\ IdleTools

Next ==
    \/ EmitLine
    \/ \E enable \in BOOLEAN : AssembleCode(enable)
    \/ RelaxIteration
    \/ GenerateCode

Spec == Init /\ [][Next]_vars

----------------------------------------------------------------------------
(* The code generator, for programs whose statements are string writes,     *)
(* read_failed() and readchar().  These statements use no local variable    *)
(* (Function.stack_size = 0) and no temporary register (saved_regs empty).  *)
(* Comment lines and blank lines are left out: every pass of the assembler  *)
(* skips them before doing anything (`if line and not line.startswith(';')`)*)

MaxStatements == 3
FunctionNames == {"main", "helper"}
\* string literals as sequences of code points: "a" and "bé"
StringLiterals == {<<97>>, <<98, 233>>}

WriteStmt(value, newline) == [kind |-> "write", value |-> value, newline |-> newline]
ReadFailedStmt == [kind |-> "read_failed", value |-> << >>, newline |-> FALSE]
ReadcharStmt == [kind |-> "readchar", value |-> << >>, newline |-> FALSE]

Statements ==
    {WriteStmt(v, FALSE) : v \in StringLiterals} \cup {WriteStmt(<<97>>, TRUE)}
        \cup {ReadFailedStmt, ReadcharStmt}

\* the generator's state while it compiles
Generator ==
    [lines |-> << >>, string_data |-> << >>, string_counter |-> 0,
     label_counter |-> 0, needs_read_failed_flag |-> FALSE]

Emit(cg, new_lines) == [cg EXCEPT !.lines = @ \o new_lines]

\* f"{prefix}_{counter}"
Numbered(prefix, counter) == prefix \o "_" \o ToString(counter)

\* CodeGenerator.add_string: the label returned
StringLabel(cg, content) ==
    IF \E i \in 1..Len(cg.string_data) : cg.string_data[i].content = content
    THEN LET i == CHOOSE i \in 1..Len(cg.string_data) :
                      cg.string_data[i].content = content
         IN cg.string_data[i].label
    ELSE Numbered("_str", cg.string_counter)

\* CodeGenerator.add_string: the effect on the string table
AddString(cg, content) ==
    IF \E i \in 1..Len(cg.string_data) : cg.string_data[i].content = content
    THEN cg
    ELSE [cg EXCEPT
            !.string_data = Append(@, [label |-> Numbered("_str", cg.string_counter),
                                       content |-> content]),
            !.string_counter = @ + 1]

\* CodeGenerator.emit_newline
EmitNewline(cg) ==
    Emit(AddString(cg, <<10>>),
         << MovImmLine("rax", 1), MovImmLine("rdi", 1),
            MovabsLine(Reg64("rsi"), StringLabel(cg, <<10>>)),
            MovImmLine("rdx", 1), InsnLine("syscall") >>)

\* CodeGenerator.compile_write_string for a string literal
CompileWriteString(cg, stmt) ==
    LET written ==
            Emit(AddString(cg, stmt.value),
                 << MovImmLine("rax", 1), MovImmLine("rdi", 1),
                    MovabsLine(Reg64("rsi"), StringLabel(cg, stmt.value)),
                    MovImmLine("rdx", Len(stmt.value)), InsnLine("syscall") >>)
    IN IF stmt.newline THEN EmitNewline(written) ELSE written

\* CodeGenerator.emit_set_read_failed
SetReadFailedLines(value) ==
    << MovabsLine(Reg64("r11"), "_read_failed"),
       InsnLine(IF value = 0 THEN "mov byte [r11], 0" ELSE "mov byte [r11], 1") >>

\* CodeGenerator.compile_read_failed
CompileReadFailed(cg) ==
    Emit([cg EXCEPT !.needs_read_failed_flag = TRUE],
         << MovabsLine(Reg64("r11"), "_read_failed"),
            InsnLine("movzx eax, byte [r11]") >>)

\* CodeGenerator.compile_readchar: done_label is fresh_label("readchar_done"),
\* the EOF label is built from label_counter after that call
CompileReadchar(cg) ==
    LET done_label == Numbered("readchar_done", cg.label_counter)
        eof_label == Numbered(".readchar_eof", cg.label_counter + 1)
    IN Emit([cg EXCEPT !.needs_read_failed_flag = TRUE,
                       !.label_counter = @ + 1],
            << InsnLine("sub rsp, 8"), InsnLine("xor eax, eax"),
               InsnLine("xor edi, edi"), InsnLine("mov rsi, rsp"),
               InsnLine("mov edx, 1"), InsnLine("syscall"),
               InsnLine("test rax, rax"), JleLine(eof_label),
               InsnLine("movzx eax, byte [rsp]") >>
            \o SetReadFailedLines(0)
            \o << JmpLine(done_label), LabelLine(eof_label),
                  InsnLine("mov eax, -1") >>
            \o SetReadFailedLines(1)
            \o << LabelLine(done_label), InsnLine("add rsp, 8") >>)

\* CodeGenerator.compile_statement
CompileStatement(cg, stmt) ==
    CASE stmt.kind = "write" -> CompileWriteString(cg, stmt)
      [] stmt.kind = "read_failed" -> CompileReadFailed(cg)
      [] stmt.kind = "readchar" -> CompileReadchar(cg)

\* CodeGenerator.compile_block
RECURSIVE CompileBlock(_, _, _)
CompileBlock(cg, statements, i) ==
    IF i > Len(statements) THEN cg
    ELSE CompileBlock(CompileStatement(cg, statements[i]), statements, i + 1)

\* CodeGenerator.compile_function: the body is compiled first, into a list of
\* its own, and placed between the prologue and the epilogue
CompileFunction(cg, func) ==
    LET body == CompileBlock([cg EXCEPT !.lines = << >>], func.body, 1)
    IN [body EXCEPT !.lines =
            cg.lines
            \o << LabelLine(func.name), InsnLine("push rbp"), InsnLine("mov rbp, rsp") >>
            \o body.lines
            \o << LabelLine(func.name \o "_epilog"), InsnLine("pop rbp"), InsnLine("ret") >>]

\* CodeGenerator.compile: `for func in program.functions`
RECURSIVE CompileFunctions(_, _, _)
CompileFunctions(cg, funcs, i) ==
    IF i > Len(funcs) THEN cg
    ELSE CompileFunctions(CompileFunction(cg, funcs[i]), funcs, i + 1)

----------------------------------------------------------------------------
(* The ELF writer and the relocation patcher.                               *)

BASE_VADDR == 4194304
PAGE_SIZE == 4096

\* struct.pack('<H', v)
LE16(v) == << v % 256, (v \div 256) % 256 >>

\* struct.pack('<I', v)
LE32(v) == << v % 256, (v \div 256) % 256, (v \div 65536) % 256,
              (v \div 16777216) % 256 >>

\* the value of the little-endian bytes data[off+1 .. off+width] (off counts from 0)
RECURSIVE ReadLE(_, _, _)
ReadLE(data, off, width) ==
    IF width = 0 THEN 0
    ELSE data[off + 1] + 256 * ReadLE(data, off + 1, width - 1)

\* str.encode('utf-8') of one code point below 0x800
Utf8Char(c) == IF c < 128 THEN <<c>> ELSE << 192 + (c \div 64), 128 + (c % 64) >>

\* content.encode('utf-8')
RECURSIVE Utf8(_)
Utf8(content) ==
    IF content = << >> THEN << >>
    ELSE Utf8Char(Head(content)) \o Utf8(Tail(content))

\* CompilationPipeline.compile, "Build rodata section": the bytes
RECURSIVE BuildRodata(_, _)
BuildRodata(data, i) ==
    IF i > Len(data) THEN << >>
    ELSE Utf8(data[i].content) \o BuildRodata(data, i + 1)

\* CompilationPipeline.compile, "Build rodata section": string_offsets
BuildStringOffsets(data) ==
    [l \in {data[i].label : i \in 1..Len(data)} |->
        LET i == CHOOSE i \in 1..Len(data) : data[i].label = l
        IN Len(BuildRodata(SubSeq(data, 1, i - 1), 1))]

\* ELF64Writer.generate_start_stub
StartStub ==
    << 49, 255 >> \o (<<232>> \o SignedLE32(9)) \o << 137, 199 >>
        \o << 184, 60, 0, 0, 0 >> \o << 15, 5 >>

\* a header table without the BSS entry
OnePhdr(size) == 1

\* num_phdrs = 2 if self.bss_size > 0 else 1
NumPhdrs(size) == IF size > 0 THEN 2 ELSE 1

\* ELF64Writer.build_elf_header
BuildElfHeader(entry_point, program_header_offset, size) ==
    << 127, 69, 76, 70 >> \o << 2, 1, 1, 0 >> \o Repeat(0, 8)
        \o LE16(2) \o LE16(62) \o LE32(1)
        \o LE64(entry_point) \o LE64(program_header_offset) \o LE64(0)
        \o LE32(0) \o LE16(64) \o LE16(56) \o LE16(NumPhdrs(size))
        \o LE16(0) \o LE16(0) \o LE16(0)

\* ELF64Writer.build_program_header: PT_LOAD, PF_R | PF_X
BuildProgramHeader(file_size, mem_size) ==
    LE32(1) \o LE32(5) \o LE64(0) \o LE64(BASE_VADDR) \o LE64(BASE_VADDR)
        \o LE64(file_size) \o LE64(mem_size) \o LE64(PAGE_SIZE)

\* ELF64Writer.build_bss_program_header: PT_LOAD, PF_R | PF_W
BuildBssProgramHeader(vaddr, mem_size) ==
    LE32(1) \o LE32(6) \o LE64(0) \o LE64(vaddr) \o LE64(vaddr)
        \o LE64(0) \o LE64(mem_size) \o LE64(PAGE_SIZE)

\* ((x + PAGE_SIZE - 1) // PAGE_SIZE) * PAGE_SIZE
PageAlign(x) == ((x + PAGE_SIZE - 1) \div PAGE_SIZE) * PAGE_SIZE

\* ELF64Writer.generate
Generate(user_code, data, size) ==
    LET headers_size == 64 + 56 * NumPhdrs(size)
        code_offset == PAGE_SIZE
        padding_size == code_offset - headers_size
        total_code_size == Len(StartStub) + Len(user_code)
        rodata_offset == code_offset + total_code_size
        vaddr == BASE_VADDR + rodata_offset
        total_file_size == rodata_offset + Len(data)
        bss == IF size > 0 THEN PageAlign(vaddr + Len(data)) ELSE 0
        entry_point == BASE_VADDR + code_offset
    IN [executable |->
            BuildElfHeader(entry_point, 64, size)
            \o BuildProgramHeader(total_file_size, total_file_size)
            \o (IF size > 0 THEN BuildBssProgramHeader(bss, size) ELSE << >>)
            \o Repeat(0, padding_size) \o StartStub \o user_code \o data,
        rodata_vaddr |-> vaddr,
        bss_vaddr |-> bss]

\* data[patch_offset:patch_offset+8] = addr_bytes, for a slice inside the file
WriteAt(data, patch_offset, addr_bytes) ==
    SubSeq(data, 1, patch_offset) \o addr_bytes
        \o SubSeq(data, patch_offset + Len(addr_bytes) + 1, Len(data))

\* a resolution that ignores the label
ResolveToRodata(label, offsets, rodata_at, bss_at) == rodata_at

\* the address patch_relocations resolves a label to; 0 stands for `continue`
ResolveAddress(label, offsets, rodata_at, bss_at) ==
    IF label = "_read_failed" THEN bss_at
    ELSE IF label \in DOMAIN offsets THEN rodata_at + offsets[label]
    ELSE 0

\* code_file_offset = 0x1000 + 16
CodeFileOffset == 4096 + 16

\* CompilationPipeline.patch_relocations: the loop over the relocations
RECURSIVE PatchFrom(_, _, _, _, _, _)
PatchFrom(data, relocs, i, offsets, rodata_at, bss_at) ==
    IF i > Len(relocs) THEN data
    ELSE LET addr == ResolveAddress(relocs[i][2], offsets, rodata_at, bss_at)
             patched == IF addr = 0 THEN data
                        ELSE WriteAt(data, CodeFileOffset + relocs[i][1], LE64(addr))
         IN PatchFrom(patched, relocs, i + 1, offsets, rodata_at, bss_at)

----------------------------------------------------------------------------
(* The compilation pipeline (SpecLink): a parsed program is compiled,       *)
(* assembled with relaxation, written as an ELF file and patched.           *)

FunctionNamesOf(funcs) == {funcs[i].name : i \in 1..Len(funcs)}

RECURSIVE StatementCount(_)
StatementCount(funcs) ==
    IF funcs = << >> THEN 0
    ELSE Len(Head(funcs).body) + StatementCount(Tail(funcs))

\* the program uses a read primitive (of the modelled ones)
UsesRead(funcs) ==
    \E i \in 1..Len(funcs) : \E j \in 1..Len(funcs[i].body) :
        funcs[i].body[j].kind \in {"read_failed", "readchar"}

\* Parser.parse: one more function definition (names are unique; a
\* definition is complete only with a non-empty body)
ParseFunction(name) ==
    /\ phase = "parse"
    /\ name \notin FunctionNamesOf(functions)
    /\ IF functions = << >> THEN TRUE ELSE functions[Len(functions)].body # << >>
    /\ StatementCount(functions) < MaxStatements
    /\ functions' = Append(functions, [name |-> name, body |-> << >>])
    /\ UNCHANGED <<asmVars, phase, string_data, needs_read_failed_flag, rodata,
                   string_offsets, bss_size, executable, rodata_vaddr, bss_vaddr,
                   frontVars>>

\* Parser.parse_statement: one more statement in the function being parsed
ParseStatement(stmt) ==
    /\ phase = "parse"
    /\ functions # << >>
    /\ StatementCount(functions) < MaxStatements
    /\ functions' = [functions EXCEPT ![Len(functions)].body = Append(@, stmt)]
    /\ UNCHANGED <<asmVars, phase, string_data, needs_read_failed_flag, rodata,
                   string_offsets, bss_size, executable, rodata_vaddr, bss_vaddr,
                   frontVars>>

\* CompilationPipeline.compile, phase 4: CodeGenerator.compile on a program
\* the parser accepted (compile mode requires a function `main`)
Compile ==
    /\ phase = "parse"
    /\ "main" \in FunctionNamesOf(functions)
    /\ functions[Len(functions)].body # << >>
    /\ LET cg == CompileFunctions(Generator, functions, 1)
       IN /\ asm_lines' = cg.lines
          /\ string_data' = cg.string_data
          /\ needs_read_failed_flag' = cg.needs_read_failed_flag
    /\ phase' = "assemble"
    /\ UNCHANGED <<pc, enable_relaxation, labels, jump_forms, current_address,
                   current_instr_index, string_relocations, iteration, converged,
                   machine_code, emitted, recorded, functions, rodata,
                   string_offsets, bss_size, executable, rodata_vaddr, bss_vaddr,
                   frontVars>>

\* CompilationPipeline.compile, after assemble_code: the rodata section
FinishCompile ==
    /\ phase = "assemble"
    /\ pc = "done"
    /\ machine_code # << >>
    /\ rodata' = BuildRodata(string_data, 1)
    /\ string_offsets' = BuildStringOffsets(string_data)
    /\ phase' = "compiled"
    /\ UNCHANGED <<asmVars, functions, string_data, needs_read_failed_flag,
                   bss_size, executable, rodata_vaddr, bss_vaddr, frontVars>>

\* bss_size = 8 if needs_bss else 0
BssSize(needs_bss) == IF needs_bss THEN 8 ELSE 0

\* CompilationPipeline.compile_file with elf_format: write_elf_executable
WriteElf ==
    /\ phase = "compiled"
    /\ LET elf == Generate(machine_code, rodata, BssSize(needs_read_failed_flag))
       IN /\ executable' = elf.executable
          /\ rodata_vaddr' = elf.rodata_vaddr
          /\ bss_vaddr' = elf.bss_vaddr
    /\ bss_size' = BssSize(needs_read_failed_flag)
    /\ phase' = "written"
    /\ UNCHANGED <<asmVars, functions, string_data, needs_read_failed_flag,
                   rodata, string_offsets, frontVars>>

\* CompilationPipeline.compile_file: `if relocations or needs_bss:` patch_relocations
PatchRelocations ==
    /\ phase = "written"
    /\ ~(string_relocations = << >> /\ ~needs_read_failed_flag)
    /\ executable' = PatchFrom(executable, string_relocations, 1, string_offsets,
                               rodata_vaddr,
                               IF needs_read_failed_flag THEN bss_vaddr ELSE 0)
    /\ phase' = "patched"
    /\ UNCHANGED <<asmVars, functions, string_data, needs_read_failed_flag,
                   rodata, string_offsets, bss_size, rodata_vaddr, bss_vaddr,
                   frontVars>>

InitLink ==
    /\ InitAssembler /\ IdleLex /\ IdleSema /\ IdleTools
    /\ phase = "parse"
    /\ functions = << >>
    /\ string_data = << >>
    /\ needs_read_failed_flag = FALSE
    /\ rodata = << >>
    /\ string_offsets = EmptyMap
    /\ bss_size = 0
    /\ executable = << >>
    /\ rodata_vaddr = 0
    /\ bss_vaddr = 0

NextLink ==
    \/ \E name \in FunctionNames : ParseFunction(name)
    \/ \E stmt \in Statements : ParseStatement(stmt)
    \/ Compile
    \/ AssembleCode(TRUE)
    \/ RelaxIteration
    \/ GenerateCode
    \/ FinishCompile
    \/ WriteElf
    \/ PatchRelocations

SpecLink == InitLink /\ [][NextLink]_vars

----------------------------------------------------------------------------
(* The lexer (SpecLex).  A source is a sequence of characters; the explored *)
(* sources are made of lines with leading spaces and an identifier, a       *)
(* comment or nothing, with or without a final newline.                     *)

MaxLines == 3
MaxIndent == 2
LineContents == {"x", "#", ""}

\* current_char is None at the end of the source
None == "None"

\* the lexer's fields as one value
LexerState ==
    [source |-> source, pos |-> pos, line |-> lex_line, column |-> lex_column,
     indent_stack |-> indent_stack, at_line_start |-> at_line_start,
     pending_tokens |-> pending_tokens]

\* Lexer.current_char
CurrentChar(lx) ==
    IF lx.pos >= Len(lx.source) THEN None ELSE lx.source[lx.pos + 1]

\* Lexer.advance
LexAdvance(lx) ==
    [lx EXCEPT !.line = IF CurrentChar(lx) = "\n" THEN @ + 1 ELSE @,
               !.column = IF CurrentChar(lx) = "\n" THEN 1 ELSE @ + 1,
               !.pos = @ + 1]

\* str.isalnum() or '_' for the characters of the explored sources
IsIdentChar(c) == c \in {"x", "_"}

\* handle_indentation, `while self.current_char in ' \t'`: the test raises
\* TypeError when current_char is None (ok = FALSE)
RECURSIVE CountIndent(_, _)
CountIndent(lx, indent_level) ==
    IF CurrentChar(lx) = None
    THEN [lx |-> lx, indent_level |-> indent_level, ok |-> FALSE]
    ELSE IF CurrentChar(lx) = " " THEN CountIndent(LexAdvance(lx), indent_level + 1)
    ELSE IF CurrentChar(lx) = "\t" THEN CountIndent(LexAdvance(lx), indent_level + 4)
    ELSE [lx |-> lx, indent_level |-> indent_level, ok |-> TRUE]

\* Lexer.skip_comment
RECURSIVE SkipComment(_)
SkipComment(lx) ==
    IF CurrentChar(lx) # None /\ CurrentChar(lx) # "\n"
    THEN SkipComment(LexAdvance(lx)) ELSE lx

\* Lexer.skip_whitespace_inline
RECURSIVE SkipWhitespaceInline(_)
SkipWhitespaceInline(lx) ==
    IF CurrentChar(lx) \in {" ", "\t", "\r"}
    THEN SkipWhitespaceInline(LexAdvance(lx)) ELSE lx

\* Lexer.read_identifier
RECURSIVE ReadIdentifier(_)
ReadIdentifier(lx) ==
    IF IsIdentChar(CurrentChar(lx)) THEN ReadIdentifier(LexAdvance(lx)) ELSE lx

\* a single pop, whatever lies below
PopOnce(stack, indent_level) == SubSeq(stack, 1, Len(stack) - 1)

\* `while self.indent_stack and self.indent_stack[-1] > indent_level: pop()`
RECURSIVE PopAbove(_, _)
PopAbove(stack, indent_level) ==
    IF stack # << >> /\ stack[Len(stack)] > indent_level
    THEN PopAbove(SubSeq(stack, 1, Len(stack) - 1), indent_level)
    ELSE stack

\* what a step of the lexer yields: the lexer after it, the token (or None),
\* and whether an exception was raised
Yield(lx, token) == [lx |-> lx, token |-> token, failed |-> FALSE]
Raise(lx) == [lx |-> lx, token |-> None, failed |-> TRUE]

\* Lexer.handle_indentation, called with at_line_start set
HandleIndentation(lx) ==
    LET counted == CountIndent([lx EXCEPT !.at_line_start = FALSE], 0)
        l1 == counted.lx
        indent_level == counted.indent_level
        current_indent == l1.indent_stack[Len(l1.indent_stack)]
        popped == PopAbove(l1.indent_stack, indent_level)
        dedents == Len(l1.indent_stack) - Len(popped)
    IN  IF ~counted.ok THEN Raise(l1)
        ELSE IF CurrentChar(l1) = "\n" THEN Yield(l1, None)
        ELSE IF CurrentChar(l1) = "#" THEN Yield(SkipComment(l1), None)
        ELSE IF indent_level > current_indent
        THEN Yield([l1 EXCEPT !.indent_stack = Append(@, indent_level)], "INDENT")
        ELSE IF indent_level < current_indent
        THEN IF popped[Len(popped)] # indent_level
             THEN Raise([l1 EXCEPT !.indent_stack = popped])
             ELSE Yield([l1 EXCEPT !.indent_stack = popped,
                                   !.pending_tokens = @ \o Repeat("DEDENT", dedents - 1)],
                        "DEDENT")
        ELSE Yield(l1, None)

\* an end of input that leaves the open indentation levels open
EofWithoutDedents(lx) == Yield(lx, "EOF")

\* next_token after its loop: "bei EOF alle uebrigen DEDENTs emittieren"
EofToken(lx) ==
    IF Len(lx.indent_stack) > 1
    THEN Yield([lx EXCEPT !.indent_stack = SubSeq(@, 1, 1),
                          !.pending_tokens = @ \o Repeat("DEDENT", Len(lx.indent_stack) - 2)],
               "DEDENT")
    ELSE Yield(lx, "EOF")

\* next_token: the loop `while self.current_char:`
RECURSIVE Scan(_)
Scan(lx) ==
    IF CurrentChar(lx) = None THEN EofToken(lx)
    ELSE LET h == IF lx.at_line_start THEN HandleIndentation(lx) ELSE Yield(lx, None)
             l1 == h.lx
             c == CurrentChar(l1)
         IN  IF h.failed THEN h
             ELSE IF h.token # None THEN h
             ELSE IF c = "\n"
             THEN LET l2 == [LexAdvance(l1) EXCEPT !.at_line_start = TRUE]
                  IN IF l1.line > 1 \/ l1.column > 1 THEN Yield(l2, "NEWLINE")
                     ELSE Scan(l2)
             \* `self.current_char in ' \t\r'` raises TypeError on None
             ELSE IF c = None THEN Raise(l1)
             ELSE IF c \in {" ", "\t", "\r"} THEN Scan(SkipWhitespaceInline(l1))
             ELSE IF c = "#" THEN Scan(SkipComment(l1))
             ELSE IF IsIdentChar(c) THEN Yield(ReadIdentifier(l1), "IDENTIFIER")
             ELSE Raise(l1)

\* Lexer.next_token
NextToken(lx) ==
    IF lx.pending_tokens # << >>
    THEN Yield([lx EXCEPT !.pending_tokens = Tail(@)], Head(lx.pending_tokens))
    ELSE Scan(lx)

\* the characters of one source line
SourceLine(indent, content) ==
    Repeat(" ", indent) \o (IF content = "" THEN << >> ELSE <<content>>) \o <<"\n">>

CountChar(src, c) == Cardinality({i \in 1..Len(src) : src[i] = c})

\* the source text grows by one line
TypeLine(indent, content) ==
    /\ lex = "input"
    /\ CountChar(source, "\n") < MaxLines
    /\ source' = source \o SourceLine(indent, content)
    /\ UNCHANGED <<lex, pos, lex_line, lex_column, indent_stack, at_line_start,
                   pending_tokens, tokens, asmVars, linkVars, semaVars, toolVars>>

\* Lexer(source) followed by the call of tokenize(); the source is taken
\* with its final newline or without it
Tokenize(strip) ==
    /\ lex = "input"
    /\ source # << >>
    /\ source' = IF strip THEN SubSeq(source, 1, Len(source) - 1) ELSE source
    /\ lex' = "running"
    /\ UNCHANGED <<pos, lex_line, lex_column, indent_stack, at_line_start,
                   pending_tokens, tokens, asmVars, linkVars, semaVars, toolVars>>

\* one round of the loop of tokenize(): next_token, append, stop at EOF
TokenizeStep ==
    /\ lex = "running"
    /\ LET r == NextToken(LexerState)
       IN /\ pos' = r.lx.pos
          /\ lex_line' = r.lx.line
          /\ lex_column' = r.lx.column
          /\ indent_stack' = r.lx.indent_stack
          /\ at_line_start' = r.lx.at_line_start
          /\ pending_tokens' = r.lx.pending_tokens
          /\ tokens' = IF r.failed THEN tokens ELSE Append(tokens, r.token)
          /\ lex' = IF r.failed THEN "failed"
                    ELSE IF r.token = "EOF" THEN "done" ELSE "running"
    /\ UNCHANGED <<source, asmVars, linkVars, semaVars, toolVars>>

InitLex ==
    /\ InitAssembler /\ IdleLink /\ IdleSema /\ IdleTools
    /\ lex = "input"
    /\ source = << >>
    /\ pos = 0
    /\ lex_line = 1
    /\ lex_column = 1
    /\ indent_stack = <<0>>
    /\ at_line_start = TRUE
    /\ pending_tokens = << >>
    /\ tokens = << >>

NextLex ==
    \/ \E indent \in 0..MaxIndent, content \in LineContents : TypeLine(indent, content)
    \/ \E strip \in BOOLEAN : Tokenize(strip)
    \/ TokenizeStep

SpecLex == InitLex /\ [][NextLex]_vars

----------------------------------------------------------------------------
(* The frame layout of the semantic analyzer (SpecSema): functions with     *)
(* parameters, local declarations and nested blocks.                        *)

MaxLocals == 3
MaxParams == 1
MaxDepth == 3
MaxFunctions == 2
DeclTypes == {"i8", "i16", "i32", "i64"}

\* TYPE_SIZES
TYPE_SIZES ==
    [t \in {"i8", "i16", "i32", "i64", "u8", "u16", "u32", "u64", "ptr", "bool", "str"} |->
        CASE t \in {"i8", "u8", "bool"} -> 1
          [] t \in {"i16", "u16"} -> 2
          [] t \in {"i32", "u32"} -> 4
          [] OTHER -> 8]

\* get_type_size
get_type_size(type_name) == TYPE_SIZES[type_name]

\* min(type_size, 8)
Min(a, b) == IF a < b THEN a ELSE b

\* an alignment that leaves the offset as it is
no_alignment(offset, alignment) == offset

\* align_offset
align_offset(offset, alignment) ==
    ((offset + alignment - 1) \div alignment) * alignment

\* define_symbol for a local: the running offset after the declaration
OffsetAfter(offset, type_) ==
    align_offset(offset, Min(get_type_size(type_), 8)) + get_type_size(type_)

\* the symbols of the current function that are (not) parameters
CountSymbols(is_param) ==
    Cardinality({i \in 1..Len(symbols) : symbols[i].is_param = is_param})

\* analyze_function up to the body: offset reset, function scope entered;
\* the function has no stack_size attribute before it is analyzed
AnalyzeFunction ==
    /\ sema \in {"start", "analyzed"}
    /\ analyzed_functions < MaxFunctions
    /\ current_stack_offset' = 0
    /\ scope_depth' = 1
    /\ symbols' = << >>
    /\ stack_size' = None
    /\ sema' = "params"
    /\ UNCHANGED <<analyzed_functions, asmVars, linkVars, lexVars, toolVars>>

\* define_symbol(param_name, param_type, is_param=True)
DefineParam(type_) ==
    /\ sema = "params"
    /\ CountSymbols(TRUE) < MaxParams
    /\ symbols' = Append(symbols, [type |-> type_, stack_offset |-> 0,
                                   is_param |-> TRUE, scope |-> scope_depth])
    /\ UNCHANGED <<sema, current_stack_offset, scope_depth, stack_size,
                   analyzed_functions, asmVars, linkVars, lexVars, toolVars>>

\* analyze_block: enter_scope, for the function body and for nested blocks
EnterBlock ==
    /\ sema \in {"params", "body"}
    /\ scope_depth < MaxDepth
    /\ scope_depth' = scope_depth + 1
    /\ sema' = "body"
    /\ UNCHANGED <<current_stack_offset, symbols, stack_size, analyzed_functions,
                   asmVars, linkVars, lexVars, toolVars>>

\* analyze_vardecl -> define_symbol for a local variable
AnalyzeVardecl(type_) ==
    /\ sema = "body"
    /\ scope_depth >= 2
    /\ CountSymbols(FALSE) < MaxLocals
    /\ current_stack_offset' = OffsetAfter(current_stack_offset, type_)
    /\ symbols' = Append(symbols, [type |-> type_,
                                   stack_offset |-> -OffsetAfter(current_stack_offset, type_),
                                   is_param |-> FALSE, scope |-> scope_depth])
    /\ UNCHANGED <<sema, scope_depth, stack_size, analyzed_functions,
                   asmVars, linkVars, lexVars, toolVars>>

\* analyze_block: exit_scope of a nested block (the offset is kept)
ExitBlock ==
    /\ sema = "body"
    /\ scope_depth > 2
    /\ scope_depth' = scope_depth - 1
    /\ UNCHANGED <<sema, current_stack_offset, symbols, stack_size, analyzed_functions,
                   asmVars, linkVars, lexVars, toolVars>>

\* end of the body block, then the rest of analyze_function
FinishFunction ==
    /\ sema = "body"
    /\ scope_depth = 2
    /\ stack_size' = align_offset(current_stack_offset, 16)
    /\ scope_depth' = 0
    /\ analyzed_functions' = analyzed_functions + 1
    /\ sema' = "analyzed"
    /\ UNCHANGED <<current_stack_offset, symbols, asmVars, linkVars, lexVars, toolVars>>

\* SemanticAnalyzer.__init__
InitSema ==
    /\ InitAssembler /\ IdleLink /\ IdleLex /\ IdleTools
    /\ sema = "start"
    /\ current_stack_offset = 0
    /\ scope_depth = 0
    /\ symbols = << >>
    /\ stack_size = None
    /\ analyzed_functions = 0

NextSema ==
    \/ AnalyzeFunction
    \/ \E type_ \in DeclTypes : DefineParam(type_)
    \/ EnterBlock
    \/ \E type_ \in DeclTypes : AnalyzeVardecl(type_)
    \/ ExitBlock
    \/ FinishFunction

SpecSema == InitSema /\ [][NextSema]_vars

----------------------------------------------------------------------------
(* The command line driver (SpecDriver): main() reads the source, picks the *)
(* interpreter or the compiler, and returns the exit code.  The source is   *)
(* described by its mode and by the stage whose error it provokes; the      *)
(* generated assembly by what the encoder returns for each of its lines.    *)

MaxAsmLines == 3
Commands == {"run", "build", "none"}
Modes == {"script", "compile"}
Faults == {"none", "lex", "parse", "sema", "codegen"}
\* Assembler.assemble gives a list of bytes, gives None, or raises
EncoderResults == {"bytes", "None", "raise"}

SeqsUpTo(S, n) == UNION {[1..k -> S] : k \in 0..n}

\* print(...)
Report(message) == Append(printed, message)

\* main(): Lexer and Parser run outside any try, then the dispatch on the
\* command and on Program.mode
Main ==
    /\ drv = "main"
    /\ IF fault \in {"lex", "parse"}
       THEN /\ drv' = "exit"
            /\ printed' = Report("Traceback")
            /\ exit_code' = 1
       ELSE /\ exit_code' = exit_code
            /\ IF command = "run"
               THEN /\ printed' = IF mode = "compile" THEN Report("Warning") ELSE printed
                    /\ drv' = "run_script"
               ELSE /\ printed' = printed
                    /\ drv' = IF command = "build" \/ mode = "compile"
                              THEN "compile_file" ELSE "run_script"
    /\ UNCHANGED <<command, mode, buildVars, interpVars, asmVars, linkVars, lexVars, semaVars, unitVars>>

\* compile_file, first pass: detect the mode
CompileFile ==
    /\ drv = "compile_file"
    /\ drv' = IF mode = "script" THEN "run_script" ELSE "compile"
    /\ UNCHANGED <<command, mode, printed, exit_code, buildVars,
                   interpVars, asmVars, linkVars, lexVars, semaVars, unitVars>>

\* `except Exception` of compile_file, then `return 0 if success else 1`
CompilationFailed ==
    /\ drv' = "exit"
    /\ printed' = Report("Compilation failed")
    /\ exit_code' = 1

\* compile(): tokenization, parsing, semantic analysis and code generation
CompileFront ==
    /\ drv = "compile"
    /\ IF fault \in {"sema", "codegen"}
       THEN /\ CompilationFailed
            /\ UNCHANGED encodings
       ELSE /\ \E generated \in SeqsUpTo(EncoderResults, MaxAsmLines) :
                  encodings' = <<"label", "bytes">> \o generated \o <<"bytes">>
            /\ drv' = "assemble"
            /\ UNCHANGED <<printed, exit_code>>
    /\ UNCHANGED <<command, mode, fault, line_no, build_code, output_written,
                   interpVars, asmVars, linkVars, lexVars, semaVars, unitVars>>

\* assemble_code before the final pass: the encoder is called outside any try
AssemblePasses ==
    /\ drv = "assemble"
    /\ IF \E i \in 1..Len(encodings) : encodings[i] = "raise"
       THEN /\ CompilationFailed
            /\ UNCHANGED <<line_no, build_code>>
       ELSE /\ drv' = "generate"
            /\ line_no' = 0
            /\ build_code' = << >>
            /\ UNCHANGED <<printed, exit_code>>
    /\ UNCHANGED <<command, mode, fault, encodings, output_written,
                   interpVars, asmVars, linkVars, lexVars, semaVars, unitVars>>

\* _generate_code, one line: bytes are appended, a label gives [], None is
\* reported and skipped, an exception is reported and skipped
FinalPassLine ==
    /\ drv = "generate"
    /\ line_no < Len(encodings)
    /\ line_no' = line_no + 1
    /\ build_code' = IF encodings[line_no + 1] = "bytes"
                     THEN Append(build_code, line_no + 1) ELSE build_code
    /\ printed' = IF encodings[line_no + 1] \in {"None", "raise"}
                  THEN Report("Fehler Zeile") ELSE printed
    /\ UNCHANGED <<drv, command, mode, exit_code, fault, encodings, output_written,
                   interpVars, asmVars, linkVars, lexVars, semaVars, unitVars>>

\* compile() after assemble_code: `if not machine_code: raise RuntimeError`
CheckMachineCode ==
    /\ drv = "generate"
    /\ line_no = Len(encodings)
    /\ IF build_code = << >>
       THEN CompilationFailed
       ELSE /\ drv' = "write"
            /\ UNCHANGED <<printed, exit_code>>
    /\ UNCHANGED <<command, mode, buildVars, interpVars, asmVars, linkVars, lexVars, semaVars, unitVars>>

\* compile_file: the binary is written, True is returned, main returns 0
WriteOutput ==
    /\ drv = "write"
    /\ output_written' = TRUE
    /\ printed' = Report("ELF64 executable written")
    /\ exit_code' = 0
    /\ drv' = "exit"
    /\ UNCHANGED <<command, mode, fault, encodings, line_no, build_code,
                   interpVars, asmVars, linkVars, lexVars, semaVars, unitVars>>

----------------------------------------------------------------------------
(* The tree-walk interpreter (class Interpreter), run by the driver for     *)
(* script sources.  A frame of `frames` is a block being executed: the     *)
(* top-level statements, the body of a called function, or a loop body.    *)

MaxTop == 2
MaxBody == 2
\* explored value of InterpreterState.max_call_depth (1000 by default)
max_call_depth == 3

\* runtime values: Python ints and None
IntValue(n) == [type |-> "int", v |-> n]
NoneValue == [type |-> "None", v |-> 0]

\* expressions
LiteralExpr(n) == [e |-> "Literal", v |-> n, name |-> ""]
CallExpr(name) == [e |-> "Call", v |-> 0, name |-> name]

\* statements
VarDeclStmt(name, init) == [kind |-> "VarDecl", name |-> name, expr |-> init, body |-> << >>]
AssignmentStmt(name, value) == [kind |-> "Assignment", name |-> name, expr |-> value, body |-> << >>]
ExprStatement(expr) == [kind |-> "ExprStatement", name |-> "", expr |-> expr, body |-> << >>]
ReturnStmt(value) == [kind |-> "Return", name |-> "", expr |-> value, body |-> << >>]
BreakStmt == [kind |-> "Break", name |-> "", expr |-> LiteralExpr(0), body |-> << >>]
ContinueStmt == [kind |-> "Continue", name |-> "", expr |-> LiteralExpr(0), body |-> << >>]
\* `loop:` is parsed as While(Literal('1', 'bool'), body)
LoopStmt(body) == [kind |-> "While", name |-> "", expr |-> LiteralExpr(1), body |-> body]

\* statements of the explored function bodies and of the explored top level
BodyStatements ==
    {VarDeclStmt("y", LiteralExpr(1)), AssignmentStmt("x", LiteralExpr(2)),
     AssignmentStmt("x", CallExpr("f")), ReturnStmt(LiteralExpr(7)), BreakStmt,
     ContinueStmt}

TopStatements ==
    {VarDeclStmt("x", LiteralExpr(0)), AssignmentStmt("x", CallExpr("f")),
     ExprStatement(CallExpr("f")), ReturnStmt(LiteralExpr(7)),
     LoopStmt(<<AssignmentStmt("x", CallExpr("f"))>>)}

\* the explored programs: top-level statements and one function f
Scripts ==
    {[statements |-> top, functions |-> [name \in {"f"} |-> body]] :
        top \in SeqsUpTo(TopStatements, MaxTop), body \in SeqsUpTo(BodyStatements, MaxBody)}

\* a compile-mode Program: no top-level statements, a function main
CompileProgram ==
    [statements |-> << >>, functions |-> [name \in {"main"} |-> <<ReturnStmt(LiteralExpr(0))>>]]

Frame(kind, statements, saved, pending, depth) ==
    [kind |-> kind, rest |-> statements, body |-> statements, saved |-> saved,
     pending |-> pending, depth |-> depth]

\* the interpreter as one value
Machine ==
    [frames |-> frames, variables |-> variables, call_depth |-> call_depth,
     calls |-> calls, outcome |-> "running", error |-> "", functions |-> script.functions]

\* self.state.variables[name] = value
Store(env, name, value) ==
    [n \in DOMAIN env \cup {name} |-> IF n = name THEN value ELSE env[n]]

Top(m) == m.frames[Len(m.frames)]
Pop(m) == [m EXCEPT !.frames = SubSeq(m.frames, 1, Len(m.frames) - 1)]
SetRest(m, statements) == [m EXCEPT !.frames[Len(m.frames)].rest = statements]

\* exceptions
RuntimeError(message) == [type |-> "RuntimeError", value |-> NoneValue, message |-> message]
BreakException == [type |-> "BreakException", value |-> NoneValue, message |-> ""]
ContinueException == [type |-> "ContinueException", value |-> NoneValue, message |-> ""]
ReturnException(value) == [type |-> "ReturnException", value |-> value, message |-> ""]

\* a call that puts the environment back only when the callee returns
RestoreOnReturn(saved_vars, current, how) ==
    IF how \in {"ReturnException", "end"} THEN saved_vars ELSE current

\* `finally: self.state.variables = saved_vars`
Restore(saved_vars, current, how) == saved_vars

\* a depth check that never fires
NoDepthCheck(depth) == FALSE

\* `if self.state.call_depth >= self.state.max_call_depth`
DepthExceeded(depth) == depth >= max_call_depth

\* the `finally` of evaluate_function_call: the call frame is left
Leave(m, how) ==
    LET fr == Top(m)
        restored == Restore(fr.saved, m.variables, how)
    IN [Pop(m) EXCEPT !.variables = restored,
                      !.call_depth = m.call_depth - 1,
                      !.calls = m.calls \cup
                          {[before |-> fr.saved, inside |-> m.variables,
                            after |-> restored,
                            depth_before |-> fr.depth, depth_after |-> m.call_depth - 1,
                            how |-> how]}]

RECURSIVE Throw(_, _), Complete(_, _, _)

\* a raised exception travels up the frames to the handler that catches it
Throw(m, exc) ==
    LET fr == Top(m)
    IN CASE fr.kind = "top" ->
              \* Interpreter.run catches ReturnException, run_script the rest
              IF exc.type = "ReturnException"
              THEN [m EXCEPT !.outcome = "returned"]
              ELSE [m EXCEPT !.outcome = "failed", !.error = exc.message]
         [] fr.kind = "loop" ->
              \* execute_while: `except BreakException` / `except ContinueException`
              IF exc.type = "BreakException" THEN Pop(m)
              ELSE IF exc.type = "ContinueException" THEN SetRest(m, fr.body)
              ELSE Throw(Pop(m), exc)
         [] OTHER ->
              \* evaluate_function_call: `except ReturnException`, `finally`
              IF exc.type = "ReturnException"
              THEN Complete(Leave(m, exc.type), fr.pending, exc.value)
              ELSE Throw(Leave(m, exc.type), exc)

\* the rest of a statement once the value of its expression is known
Complete(m, stmt, value) ==
    CASE stmt.kind = "VarDecl" ->
           [m EXCEPT !.variables = Store(m.variables, stmt.name, value)]
      [] stmt.kind = "Assignment" ->
           IF stmt.name \notin DOMAIN m.variables
           THEN Throw(m, RuntimeError("Undefined variable: " \o stmt.name))
           ELSE [m EXCEPT !.variables = Store(m.variables, stmt.name, value)]
      [] OTHER -> Throw(m, ReturnException(value))

\* evaluate_function_call up to the callee's body
CallFunction(m, stmt) ==
    LET name == stmt.expr.name
    IN IF name \notin DOMAIN m.functions
       THEN Throw(m, RuntimeError("Undefined function: " \o name))
       ELSE IF DepthExceeded(m.call_depth)
       THEN Throw(m, RuntimeError("Stack overflow in script mode"))
       ELSE [m EXCEPT !.frames = Append(m.frames,
                           Frame("call", m.functions[name], m.variables, stmt,
                                 m.call_depth)),
                      !.call_depth = m.call_depth + 1]

\* execute_statement
ExecuteStatement(m, stmt) ==
    CASE stmt.kind \in {"VarDecl", "Assignment", "Return"} ->
           IF stmt.expr.e = "Call" THEN CallFunction(m, stmt)
           ELSE Complete(m, stmt, IntValue(stmt.expr.v))
      [] stmt.kind = "While" ->
           [m EXCEPT !.frames = Append(m.frames,
                          Frame("loop", stmt.body, m.variables, stmt, m.call_depth))]
      [] stmt.kind = "Break" -> Throw(m, BreakException)
      [] stmt.kind = "Continue" -> Throw(m, ContinueException)
      [] OTHER ->
           \* an ExprStatement is no Expression: the final else of the chain
           Throw(m, RuntimeError("Unknown statement type: ExprStatement"))

\* the end of a block: of the program, of a callee (return None), of a loop body
EndOfBlock(m) ==
    LET fr == Top(m)
    IN CASE fr.kind = "top" -> [m EXCEPT !.outcome = "returned"]
         [] fr.kind = "loop" -> SetRest(m, fr.body)
         [] OTHER -> Complete(Leave(m, "end"), fr.pending, NoneValue)

\* one step of the interpreter
Step(m) ==
    IF Top(m).rest = << >> THEN EndOfBlock(m)
    ELSE ExecuteStatement(SetRest(m, Tail(Top(m).rest)), Head(Top(m).rest))

\* run_script: `except Exception`, return False, then main returns 1
RuntimeFailure(message) ==
    /\ drv' = "exit"
    /\ printed' = Report("Runtime error: " \o message)
    /\ exit_code' = 1

\* run_script: Interpreter() and the start of Interpreter.run
RunScript ==
    /\ drv = "run_script"
    /\ IF mode # "script"
       THEN /\ RuntimeFailure("Interpreter only handles script mode")
            /\ script' = CompileProgram
            /\ UNCHANGED <<frames, variables, call_depth, calls>>
       ELSE /\ \E program \in Scripts :
                  /\ script' = program
                  /\ frames' = <<Frame("top", program.statements, EmptyMap,
                                       BreakStmt, 0)>>
            /\ variables' = EmptyMap
            /\ call_depth' = 0
            /\ calls' = {}
            /\ drv' = "interpret"
            /\ UNCHANGED <<printed, exit_code>>
    /\ UNCHANGED <<command, mode, buildVars, asmVars, linkVars, lexVars, semaVars, unitVars>>

\* Interpreter.run: the next statement (or the end of a block) is executed
Interpret ==
    /\ drv = "interpret"
    /\ LET m == Step(Machine)
       IN /\ frames' = m.frames
          /\ variables' = m.variables
          /\ call_depth' = m.call_depth
          /\ calls' = m.calls
          /\ IF m.outcome = "failed" THEN RuntimeFailure(m.error)
             ELSE IF m.outcome = "returned"
             THEN /\ drv' = "exit"
                  /\ exit_code' = 0
                  /\ printed' = printed
             ELSE UNCHANGED <<drv, printed, exit_code>>
    /\ UNCHANGED <<command, mode, script, buildVars, asmVars, linkVars, lexVars, semaVars, unitVars>>

\* the command line and the source file
InitDriver ==
    /\ InitAssembler /\ IdleLink /\ IdleLex /\ IdleSema
    /\ drv = "main"
    /\ command \in Commands
    /\ mode \in Modes
    /\ fault \in Faults
    /\ printed = << >>
    /\ exit_code = None
    /\ encodings = << >>
    /\ line_no = 0
    /\ build_code = << >>
    /\ output_written = FALSE
    /\ IdleInterp
    /\ IdleEval
    /\ IdleCheck /\ IdleGen

NextDriver ==
    \/ Main
    \/ CompileFile
    \/ CompileFront
    \/ AssemblePasses
    \/ FinalPassLine
    \/ CheckMachineCode
    \/ WriteOutput
    \/ RunScript
    \/ Interpret

SpecDriver == InitDriver /\ [][NextDriver]_vars

----------------------------------------------------------------------------
(* One op under both semantics (SpecOps): the statement             *)
(* `r: T = left op right` is evaluated by the interpreter                  *)
(* (evaluate_binary / evaluate_unary on Python integers) and by the code   *)
(* the generator emits for it (32-bit instructions on eax/ecx, then the    *)
(* typed store of compile_vardecl and the typed load of                    *)
(* compile_identifier).  The explored operands keep every 32-bit result    *)
(* far from the 32-bit limits; results leave the range of i8.              *)

OperandTypes == {"i8", "i32"}
Operands == {-128, -7, -1, 0, 1, 2, 3, 127}
ShiftCounts == {0, 1, 3}
BinaryOperators ==
    {"+", "-", "*", "/", "%", "&", "|", "^", "<<", ">>",
     "==", "!=", "<", "<=", ">", ">="}
UnaryOperators == {"neg", "!"}

Value(v) == [kind |-> "int", v |-> v]
\* a raised exception, or a hardware trap
Failure == [kind |-> "error", v |-> 0]

Abs(v) == IF v < 0 THEN -v ELSE v

RECURSIVE Pow2(_)
Pow2(k) == IF k = 0 THEN 1 ELSE 2 * Pow2(k - 1)

\* Python's // on integers: the floor of the quotient
FloorDiv(a, b) ==
    LET q == Abs(a) \div Abs(b)
    IN IF (a < 0) = (b < 0) THEN q
       ELSE IF q * Abs(b) = Abs(a) THEN -q ELSE -q - 1

\* idiv: the quotient truncated toward zero
TruncDiv(a, b) ==
    LET q == Abs(a) \div Abs(b)
    IN IF (a < 0) = (b < 0) THEN q ELSE -q

\* bitwise operations on two's complement words of 16 bits, which hold
\* every explored operand
WordBits == 16
ToWord(v) == v % Pow2(WordBits)
FromWord(u) == IF u >= Pow2(WordBits - 1) THEN u - Pow2(WordBits) ELSE u

RECURSIVE BitwiseWord(_, _, _, _)
BitwiseWord(f, a, b, k) ==
    IF k = 0 THEN 0
    ELSE LET bit_a == a % 2
             bit_b == b % 2
             bit == CASE f = "&" -> IF bit_a = 1 /\ bit_b = 1 THEN 1 ELSE 0
                      [] f = "|" -> IF bit_a = 1 \/ bit_b = 1 THEN 1 ELSE 0
                      [] OTHER -> IF bit_a # bit_b THEN 1 ELSE 0
         IN bit + 2 * BitwiseWord(f, a \div 2, b \div 2, k - 1)

Bitwise(f, a, b) == FromWord(BitwiseWord(f, ToWord(a), ToWord(b), WordBits))

\* a Python bool as the integer it equals
Bool(b) == IF b THEN 1 ELSE 0

Compare(op, a, b) ==
    CASE op = "==" -> a = b
      [] op = "!=" -> a # b
      [] op = "<" -> a < b
      [] op = "<=" -> a <= b
      [] op = ">" -> a > b
      [] OTHER -> a >= b

\* Interpreter.evaluate_binary
evaluate_binary(op, a, b) ==
    CASE op = "+" -> Value(a + b)
      [] op = "-" -> Value(a - b)
      [] op = "*" -> Value(a * b)
      [] op = "/" -> IF b = 0 THEN Failure ELSE Value(FloorDiv(a, b))
      [] op = "%" -> IF b = 0 THEN Failure ELSE Value(a - b * FloorDiv(a, b))
      [] op \in {"&", "|", "^"} -> Value(Bitwise(op, a, b))
      [] op = "<<" -> IF b < 0 THEN Failure ELSE Value(a * Pow2(b))
      [] op = ">>" -> IF b < 0 THEN Failure ELSE Value(FloorDiv(a, Pow2(b)))
      [] OTHER -> Value(Bool(Compare(op, a, b)))

\* Interpreter.evaluate_unary
evaluate_unary(op, a) ==
    IF op = "neg" THEN Value(-a) ELSE Value(Bool(a = 0))

\* compile_literal / compile_identifier: the operand as it arrives in eax
LoadOperand(type, v) ==
    IF type = "i8" THEN ((v + 128) % 256) - 128 ELSE v

\* compile_binaryop: the instruction sequence applied to eax and ecx
compile_binaryop(op, a, b) ==
    CASE op = "+" -> Value(a + b)
      [] op = "-" -> Value(a - b)
      [] op = "*" -> Value(a * b)
      [] op = "/" -> IF b = 0 THEN Failure ELSE Value(TruncDiv(a, b))
      [] op = "%" -> IF b = 0 THEN Failure ELSE Value(a - b * TruncDiv(a, b))
      [] op \in {"&", "|", "^"} -> Value(Bitwise(op, a, b))
      [] op = "<<" -> Value(a * Pow2(b % 32))
      [] op = ">>" -> Value(FloorDiv(a, Pow2(b % 32)))
      [] OTHER -> Value(Bool(Compare(op, a, b)))

\* compile_unaryop: neg eax, or xor eax, 1
compile_unaryop(op, a) ==
    IF op = "neg" THEN Value(-a) ELSE Value(Bitwise("^", a, 1))

\* compile_vardecl then compile_identifier: `mov byte [..], al` and
\* `movsx eax, byte [..]` for i8, a 32-bit store and load for i32
StoreLoad(type, result) ==
    IF result.kind = "int" THEN Value(LoadOperand(type, result.v)) ELSE result

IsUnary == operator \in UnaryOperators

\* the statement under the interpreter
Evaluate ==
    /\ eval \in {"start", "executed"}
    /\ interpreted.kind = "none"
    /\ interpreted' = IF IsUnary THEN evaluate_unary(operator, left)
                      ELSE evaluate_binary(operator, left, right)
    /\ eval' = IF eval = "start" THEN "evaluated" ELSE "done"
    /\ UNCHANGED <<operator, operand_type, left, right, compiled, notEvalVars>>

\* the statement compiled and run
Execute ==
    /\ eval \in {"start", "evaluated"}
    /\ compiled.kind = "none"
    /\ compiled' =
          LET a == LoadOperand(operand_type, left)
              b == LoadOperand(operand_type, right)
              result_type == IF operator \in {"==", "!=", "<", "<=", ">", ">=", "!"}
                             THEN "bool" ELSE operand_type
          IN StoreLoad(result_type,
                       IF IsUnary THEN compile_unaryop(operator, a)
                       ELSE compile_binaryop(operator, a, b))
    /\ eval' = IF eval = "start" THEN "executed" ELSE "done"
    /\ UNCHANGED <<operator, operand_type, left, right, interpreted, notEvalVars>>

InitOps ==
    /\ InitAssembler /\ IdleLink /\ IdleLex /\ IdleSema /\ IdleDriver /\ IdleInterp
    /\ IdleCheck /\ IdleGen
    /\ eval = "start"
    /\ operator \in BinaryOperators \cup UnaryOperators
    /\ operand_type \in OperandTypes
    /\ left \in IF operator = "!" THEN {0, 1} ELSE Operands
    /\ right \in IF IsUnary THEN {0}
                 ELSE IF operator \in {"<<", ">>"} THEN ShiftCounts ELSE Operands
    /\ interpreted = [kind |-> "none", v |-> 0]
    /\ compiled = [kind |-> "none", v |-> 0]

NextOps == Evaluate \/ Execute

SpecOps == InitOps /\ [][NextOps]_vars

----------------------------------------------------------------------------
(* The semantic analyzer, statement by statement (SpecAnalyze).  The        *)
(* statements of a function arrive one at a time; `when`, `while` and       *)
(* `else` open a block and the end of a block closes it.  `blocks` is the   *)
(* nesting of the source text, `scopes` and `in_loop` are the analyzer's.   *)

MaxNesting == 4
\* the explored functions have the parameter p: i64 and declare the local x
Params == {"p"}
LocalNames == {"x"}
VarTypes == {"i32", "i64"}
ReturnTypes == {"i32", "i64"}

SIGNED_TYPES == {"i8", "i16", "i32", "i64"}
UNSIGNED_TYPES == {"u8", "u16", "u32", "u64"}
INTEGER_TYPES == SIGNED_TYPES \cup UNSIGNED_TYPES
is_integer_type(type_name) == type_name \in INTEGER_TYPES

\* expressions: Literal(value, type), Identifier(name), BinaryOp(op, left, right)
Literal(value, type) ==
    [e |-> "Literal", name |-> "", value |-> value, type |-> type, inferred_type |-> None]
Identifier(name) ==
    [e |-> "Identifier", name |-> name, value |-> "", type |-> "", inferred_type |-> None]
BinaryOp(operation, l, r) ==
    [e |-> "BinaryOp", op |-> operation, left |-> l, right |-> r, inferred_type |-> None]

\* the explored expressions
ExploredOperands ==
    {Literal("5", "int"), Literal("1", "bool"), Identifier("x"), Identifier("p")}
ExploredExpressions ==
    ExploredOperands \cup
    {BinaryOp("+", Identifier("x"), Literal("5", "int")),
     BinaryOp("+", Literal("5", "int"), Identifier("p"))}
ExploredConditions ==
    {Literal("1", "bool"), Literal("5", "int"),
     BinaryOp("<", Identifier("x"), Literal("5", "int"))}

\* Symbol
Symbol(type_, mutable) == [type |-> type_, mutable |-> mutable]
NoSymbol == [type |-> None, mutable |-> FALSE]

\* Scope.lookup: the current scope, then the parents
RECURSIVE Lookup(_, _)
Lookup(chain, name) ==
    IF chain = << >> THEN NoSymbol
    ELSE IF name \in DOMAIN chain[Len(chain)] THEN chain[Len(chain)][name]
    ELSE Lookup(SubSeq(chain, 1, Len(chain) - 1), name)

\* enter_scope: Scope(parent=self.current_scope)
enter_scope(chain) == Append(chain, EmptyMap)

\* a scope end that hands the symbols of the scope to its parent
merge_scope(chain) ==
    LET top == chain[Len(chain)]
        parent == chain[Len(chain) - 1]
    IN [SubSeq(chain, 1, Len(chain) - 1) EXCEPT
          ![Len(chain) - 1] = [n \in DOMAIN parent \cup DOMAIN top |->
                                  IF n \in DOMAIN top THEN top[n] ELSE parent[n]]]

\* exit_scope: self.current_scope = self.current_scope.parent
exit_scope(chain) == SubSeq(chain, 1, Len(chain) - 1)

\* a loop end that leaves the counter as it is
keep_in_loop(depth) == depth

\* analyze_while: self.in_loop -= 1
leave_loop(depth) == depth - 1

\* the outcome of analyzing an expression
Typed(type, expr) == [ok |-> TRUE, type |-> type, expr |-> expr, message |-> ""]
Rejected(message, expr) == [ok |-> FALSE, type |-> None, expr |-> expr, message |-> message]
Annotate(expr, type) == [expr EXCEPT !.inferred_type = type]

\* analyze_literal
analyze_literal(lit) ==
    IF lit.type = "int" THEN Typed("i32", Annotate(lit, "i32"))
    ELSE IF lit.type = "bool" THEN Typed("bool", Annotate(lit, "bool"))
    ELSE Rejected("Unknown literal type", lit)

\* analyze_identifier with lookup_symbol
analyze_identifier(ident, chain) ==
    LET symbol == Lookup(chain, ident.name)
    IN IF symbol = NoSymbol THEN Rejected("Undefined variable", ident)
       ELSE Typed(symbol.type, Annotate(ident, symbol.type))

\* analyze_expression for an operand of the explored expressions
analyze_operand(expr, chain) ==
    IF expr.e = "Literal" THEN analyze_literal(expr)
    ELSE analyze_identifier(expr, chain)

\* analyze_binaryop: the result type for operands of one type
BinaryResult(binop, type) ==
    IF binop.op \in {"==", "!=", "<", "<=", ">", ">="}
    THEN IF is_integer_type(type) \/ type = "bool"
         THEN Typed("bool", Annotate(binop, "bool"))
         ELSE Rejected("Comparison operator requires integer or bool types", binop)
    ELSE IF is_integer_type(type)
         THEN Typed(type, Annotate(binop, type))
         ELSE Rejected("Arithmetic operator requires integer types", binop)

\* analyze_binaryop
analyze_binaryop(binop, chain) ==
    LET l == analyze_operand(binop.left, chain)
        r == analyze_operand(binop.right, chain)
    IN IF ~l.ok THEN Rejected(l.message, binop)
       ELSE IF ~r.ok THEN Rejected(r.message, [binop EXCEPT !.left = l.expr])
       ELSE LET both == [binop EXCEPT !.left = l.expr, !.right = r.expr]
            IN IF l.type = r.type THEN BinaryResult(both, l.type)
               ELSE IF l.type = "i32" /\ binop.left.e = "Literal" /\ is_integer_type(r.type)
               THEN BinaryResult([both EXCEPT !.left = Annotate(l.expr, r.type)], r.type)
               ELSE IF r.type = "i32" /\ binop.right.e = "Literal" /\ is_integer_type(l.type)
               THEN BinaryResult([both EXCEPT !.right = Annotate(r.expr, l.type)], l.type)
               ELSE Rejected("Type mismatch in binary operation", both)

\* analyze_expression
analyze_expression(expr, chain) ==
    IF expr.e = "BinaryOp" THEN analyze_binaryop(expr, chain)
    ELSE analyze_operand(expr, chain)

\* analyze_vardecl / analyze_assignment: the check of the value against the
\* declared type, with the coercion of i32 literals
CheckValue(expected, res, mismatch) ==
    IF ~res.ok THEN res
    ELSE IF res.type = "i32" /\ expected \in INTEGER_TYPES \ {"i32"}
    THEN IF res.expr.e = "Literal"
         THEN Typed(expected, Annotate(res.expr, expected))
         ELSE Rejected(mismatch, res.expr)
    ELSE IF expected = "bool" /\ res.type = "i32"
    THEN IF res.expr.e = "Literal" /\ res.expr.value \in {"0", "1"}
         THEN Typed("bool", Annotate(res.expr, "bool"))
         ELSE Rejected("Cannot assign non-boolean value to bool variable", res.expr)
    ELSE IF res.type # expected THEN Rejected(mismatch, res.expr)
    ELSE res

\* analyze_return: the check of the value against the return type
CheckReturn(expected, res) ==
    IF ~res.ok THEN res
    ELSE IF expected = "None"
    THEN Rejected("Function has no return type but returns a value", res.expr)
    ELSE IF res.type # expected THEN Rejected("Return type mismatch", res.expr)
    ELSE res

\* no expression: a declaration without initializer, a bare `give`
NoExpr == [e |-> "none", inferred_type |-> None]

\* a function or block of the source text and the names declared in it so far
Block(kind, declared) == [kind |-> kind, declared |-> declared]

\* the statement analyzed last: `fresh` tells that a declared name had not
\* been declared before in the same block of the source text
Statement(kind, name, expected, value, fresh) ==
    [kind |-> kind, name |-> name, expected |-> expected, value |-> value,
     fresh |-> fresh]

CurrentBlock == blocks[Len(blocks)]
current_scope == scopes[Len(scopes)]

\* Scope.define in the current scope
Define(chain, name, symbol) ==
    [chain EXCEPT ![Len(chain)] =
        [n \in DOMAIN chain[Len(chain)] \cup {name} |->
            IF n = name THEN symbol ELSE chain[Len(chain)][n]]]

Declare(text, name) ==
    [text EXCEPT ![Len(text)].declared = @ \cup {name}]

\* self.error(msg): the SemanticError leaves analyze
SemanticError(msg) ==
    /\ analysis' = "error"
    /\ semantic_error' = msg

\* SemanticAnalyzer.analyze up to pass 2: the global scope
Analyze ==
    /\ analysis = "idle"
    /\ scopes' = <<EmptyMap>>
    /\ analysis' = "pass2"
    /\ UNCHANGED <<return_type, blocks, in_loop, semantic_error, analyzed,
                   notCheckVars>>

\* analyze_function up to the first statement of the body: the function
\* scope with the parameters, then the scope of the body block
AnalyzeFunctionBody(ret, params) ==
    /\ analysis = "pass2"
    /\ return_type' = ret
    /\ scopes' = enter_scope(
                    [enter_scope(scopes) EXCEPT ![Len(scopes) + 1] =
                        [n \in params |-> Symbol("i64", FALSE)]])
    /\ blocks' = <<Block("function", params), Block("body", {})>>
    /\ analyzed' = Statement("Function", "", ret, NoExpr, TRUE)
    /\ analysis' = "function"
    /\ UNCHANGED <<in_loop, semantic_error, notCheckVars>>

\* analyze_vardecl
AnalyzeDeclaration(name, type_, init) ==
    /\ analysis = "function"
    /\ LET res == IF init = NoExpr THEN Typed(type_, NoExpr)
                  ELSE CheckValue(type_, analyze_expression(init, scopes),
                                  "Type mismatch in variable")
       IN /\ analyzed' = Statement("VarDecl", name, type_, res.expr,
                                   name \notin CurrentBlock.declared)
          /\ IF ~res.ok
             THEN SemanticError(res.message) /\ UNCHANGED <<scopes, blocks>>
             ELSE IF name \in DOMAIN current_scope
             THEN SemanticError("Symbol already defined in this scope")
                  /\ UNCHANGED <<scopes, blocks>>
             ELSE /\ scopes' = Define(scopes, name, Symbol(type_, TRUE))
                  /\ blocks' = Declare(blocks, name)
                  /\ UNCHANGED <<analysis, semantic_error>>
    /\ UNCHANGED <<return_type, in_loop, notCheckVars>>

\* analyze_assignment
AnalyzeAssignment(name, value) ==
    /\ analysis = "function"
    /\ LET symbol == Lookup(scopes, name)
           res == CheckValue(symbol.type, analyze_expression(value, scopes),
                             "Type mismatch in assignment")
       IN IF symbol = NoSymbol
          THEN /\ SemanticError("Undefined variable")
               /\ analyzed' = Statement("Assignment", name, None, value, TRUE)
          ELSE IF ~symbol.mutable
          THEN /\ SemanticError("Cannot assign to immutable variable")
               /\ analyzed' = Statement("Assignment", name, symbol.type, value, TRUE)
          ELSE /\ analyzed' = Statement("Assignment", name, symbol.type, res.expr, TRUE)
               /\ IF res.ok THEN UNCHANGED <<analysis, semantic_error>>
                  ELSE SemanticError(res.message)
    /\ UNCHANGED <<return_type, blocks, scopes, in_loop, notCheckVars>>

\* analyze_return
AnalyzeReturn(value) ==
    /\ analysis = "function"
    /\ IF value = NoExpr
       THEN /\ analyzed' = Statement("Return", "", return_type, NoExpr, TRUE)
            /\ IF return_type # "None"
               THEN SemanticError("Function must return a value")
               ELSE UNCHANGED <<analysis, semantic_error>>
       ELSE LET res == CheckReturn(return_type, analyze_expression(value, scopes))
            IN /\ analyzed' = Statement("Return", "", return_type, res.expr, TRUE)
               /\ IF res.ok THEN UNCHANGED <<analysis, semantic_error>>
                  ELSE SemanticError(res.message)
    /\ UNCHANGED <<return_type, blocks, scopes, in_loop, notCheckVars>>

\* analyze_if up to the first statement of the then-block
AnalyzeIf(condition) ==
    /\ analysis = "function"
    /\ Len(blocks) < MaxNesting
    /\ LET res == analyze_expression(condition, scopes)
       IN /\ analyzed' = Statement("If", "", "bool", res.expr, TRUE)
          /\ IF ~res.ok
             THEN SemanticError(res.message) /\ UNCHANGED <<scopes, blocks>>
             ELSE IF res.type # "bool"
             THEN SemanticError("Condition in 'when' statement must be bool type")
                  /\ UNCHANGED <<scopes, blocks>>
             ELSE /\ scopes' = enter_scope(scopes)
                  /\ blocks' = Append(blocks, Block("when", {}))
                  /\ UNCHANGED <<analysis, semantic_error>>
    /\ UNCHANGED <<return_type, in_loop, notCheckVars>>

\* analyze_if between the then-block and the else-block
AnalyzeElse ==
    /\ analysis = "function"
    /\ CurrentBlock.kind = "when"
    /\ scopes' = enter_scope(exit_scope(scopes))
    /\ blocks' = [blocks EXCEPT ![Len(blocks)] = Block("else", {})]
    /\ analyzed' = Statement("Else", "", None, NoExpr, TRUE)
    /\ UNCHANGED <<analysis, return_type, in_loop, semantic_error,
                   notCheckVars>>

\* analyze_while up to the first statement of the body
AnalyzeWhile(condition) ==
    /\ analysis = "function"
    /\ Len(blocks) < MaxNesting
    /\ LET res == analyze_expression(condition, scopes)
       IN /\ analyzed' = Statement("While", "", "bool", res.expr, TRUE)
          /\ IF ~res.ok
             THEN SemanticError(res.message) /\ UNCHANGED <<scopes, blocks, in_loop>>
             ELSE IF res.type # "bool"
             THEN SemanticError("Condition in 'while' statement must be bool type")
                  /\ UNCHANGED <<scopes, blocks, in_loop>>
             ELSE /\ in_loop' = in_loop + 1
                  /\ scopes' = enter_scope(scopes)
                  /\ blocks' = Append(blocks, Block("while", {}))
                  /\ UNCHANGED <<analysis, semantic_error>>
    /\ UNCHANGED <<return_type, notCheckVars>>

\* analyze_break
AnalyzeBreak ==
    /\ analysis = "function"
    /\ analyzed' = Statement("Break", "", None, NoExpr, TRUE)
    /\ IF in_loop = 0 THEN SemanticError("Break outside of loop")
       ELSE UNCHANGED <<analysis, semantic_error>>
    /\ UNCHANGED <<return_type, blocks, scopes, in_loop, notCheckVars>>

\* analyze_continue
AnalyzeContinue ==
    /\ analysis = "function"
    /\ analyzed' = Statement("Continue", "", None, NoExpr, TRUE)
    /\ IF in_loop = 0 THEN SemanticError("Continue outside of loop")
       ELSE UNCHANGED <<analysis, semantic_error>>
    /\ UNCHANGED <<return_type, blocks, scopes, in_loop, notCheckVars>>

\* the end of a nested block: exit_scope of analyze_block, and the rest of
\* analyze_while when the block is the body of a loop
EndBlock ==
    /\ analysis = "function"
    /\ Len(blocks) > 2
    /\ scopes' = exit_scope(scopes)
    /\ in_loop' = IF CurrentBlock.kind = "while" THEN leave_loop(in_loop) ELSE in_loop
    /\ blocks' = SubSeq(blocks, 1, Len(blocks) - 1)
    /\ analyzed' = Statement("EndBlock", "", None, NoExpr, TRUE)
    /\ UNCHANGED <<analysis, return_type, semantic_error, notCheckVars>>

\* the end of the body block, then the rest of analyze_function
EndFunction ==
    /\ analysis = "function"
    /\ Len(blocks) = 2
    /\ scopes' = exit_scope(exit_scope(scopes))
    /\ blocks' = << >>
    /\ analyzed' = Statement("EndFunction", "", None, NoExpr, TRUE)
    /\ analysis' = "pass2"
    /\ UNCHANGED <<return_type, in_loop, semantic_error, notCheckVars>>

InitAnalyze ==
    /\ InitAssembler /\ IdleLink /\ IdleLex /\ IdleSema /\ IdleDriver /\ IdleInterp
    /\ IdleEval /\ IdleCheck /\ IdleGen

NextAnalyze ==
    \/ Analyze
    \/ \E ret \in ReturnTypes : AnalyzeFunctionBody(ret, Params)
    \/ \E name \in LocalNames, type_ \in VarTypes,
           init \in ExploredExpressions \cup {NoExpr} :
          AnalyzeDeclaration(name, type_, init)
    \/ \E name \in LocalNames \cup Params, value \in ExploredExpressions :
          AnalyzeAssignment(name, value)
    \/ \E value \in ExploredExpressions \cup {NoExpr} : AnalyzeReturn(value)
    \/ \E condition \in ExploredConditions : AnalyzeIf(condition)
    \/ AnalyzeElse
    \/ \E condition \in ExploredConditions : AnalyzeWhile(condition)
    \/ AnalyzeBreak
    \/ AnalyzeContinue
    \/ EndBlock
    \/ EndFunction

SpecAnalyze == InitAnalyze /\ [][NextAnalyze]_vars

----------------------------------------------------------------------------
(* The register allocator and the compilation of expressions (SpecAlloc).   *)
(* The allocator is driven by arbitrary allocate/release/reset calls, and   *)
(* by compile_expression on expressions nested to the left and the right.   *)

MaxSpills == 1
MaxOperators == 6

\* the arguments release is called with: the pool, the spill signal, and a
\* register that is not a temporary
ReleaseArguments == {TEMP_REGS_64[i] : i \in 1..Len(TEMP_REGS_64)} \cup {"_spill_", "rax"}

\* RegisterAllocator.allocate: the allocator after the call and what it returns
allocate(ra) ==
    IF ra.free_regs # << >>
    THEN LET reg == ra.free_regs[Len(ra.free_regs)]
         IN [ra |-> [ra EXCEPT !.free_regs = SubSeq(@, 1, Len(@) - 1),
                               !.used_regs = @ \cup {reg},
                               !.saved_regs = @ \cup {reg}],
             reg |-> reg, is_spill |-> FALSE]
    ELSE [ra |-> [ra EXCEPT !.spill_count = @ + 1], reg |-> "_spill_", is_spill |-> TRUE]

\* a release that returns the register to the pool whether it is held or not
release_unchecked(ra, reg) ==
    IF reg = "_spill_" THEN ra
    ELSE [ra EXCEPT !.used_regs = @ \ {reg}, !.free_regs = Append(@, reg)]

\* RegisterAllocator.release
release(ra, reg) ==
    IF reg = "_spill_" THEN ra
    ELSE IF reg \in ra.used_regs
    THEN [ra EXCEPT !.used_regs = @ \ {reg}, !.free_regs = Append(@, reg)]
    ELSE ra

\* RegisterAllocator.get_save_restore_regs: sorted(list(saved_regs)); the
\* names sort in the order of TEMP_REGS_64
get_save_restore_regs(ra) == SelectSeq(TEMP_REGS_64, LAMBDA reg : reg \in ra.saved_regs)

\* a jump or call line
JumpLine(mnemonic, target) == [op |-> mnemonic, arg |-> target, n |-> 0]

\* jump_map of compile_binaryop
jump_map(operation) ==
    CASE operation = "==" -> "je" [] operation = "!=" -> "jne"
      [] operation = "<" -> "jl" [] operation = "<=" -> "jle"
      [] operation = ">" -> "jg" [] operation = ">=" -> "jge"

\* the instruction lines of the arithmetic and shift operators
OperatorLines(operation) ==
    CASE operation = "+" -> <<InsnLine("add eax, ecx")>>
      [] operation = "-" -> <<InsnLine("sub eax, ecx")>>
      [] operation = "*" -> <<InsnLine("imul ecx")>>
      [] operation = "/" -> <<InsnLine("cdq"), InsnLine("idiv ecx")>>
      [] operation = "<<" -> <<InsnLine("shl eax, cl")>>

\* the state compile_expression works on: the lines emitted, the label
\* counter, the allocator; allocated and spills note what allocate returned
Compiling(lines, counter, ra) ==
    [lines |-> lines, label_counter |-> counter, reg_alloc |-> ra,
     allocated |-> {}, spills |-> 0]

\* CodeGenerator.compile_expression: literals, identifiers, binary operators
RECURSIVE compile_expression(_, _)

\* CodeGenerator.compile_binaryop: left, allocate, right, release, operator
compile_binaryop_temps(g, binop) ==
    LET g1 == compile_expression(g, binop.left)
        temp == allocate(g1.reg_alloc)
        g2 == [g1 EXCEPT
                 !.reg_alloc = temp.ra,
                 !.allocated = IF temp.is_spill THEN @ ELSE @ \cup {temp.reg},
                 !.spills = IF temp.is_spill THEN @ + 1 ELSE @,
                 !.lines = Append(@, IF temp.is_spill THEN InsnLine("push rax")
                                     ELSE InsnLine("mov " \o temp.reg \o ", rax"))]
        g3 == compile_expression(g2, binop.right)
        g4 == [g3 EXCEPT
                 !.reg_alloc = IF temp.is_spill THEN @ ELSE release(@, temp.reg),
                 !.lines = @ \o << InsnLine("mov ecx, eax"),
                                   IF temp.is_spill THEN InsnLine("pop rax")
                                   ELSE InsnLine("mov rax, " \o temp.reg) >>]
        true_label == Numbered("cmp_true", g4.label_counter)
        end_label == Numbered("cmp_end", g4.label_counter + 1)
    IN IF binop.op \in {"==", "!=", "<", "<=", ">", ">="}
       THEN [g4 EXCEPT
               !.label_counter = @ + 2,
               !.lines = @ \o << InsnLine("cmp eax, ecx"),
                                 JumpLine(jump_map(binop.op), true_label),
                                 InsnLine("mov eax, 0"), JmpLine(end_label),
                                 LabelLine(true_label), InsnLine("mov eax, 1"),
                                 LabelLine(end_label) >>]
       ELSE [g4 EXCEPT !.lines = @ \o OperatorLines(binop.op)]

compile_expression(g, expr) ==
    CASE expr.e = "Literal" ->
            [g EXCEPT !.lines = Append(@, InsnLine("mov eax, " \o expr.value))]
      [] expr.e = "Identifier" ->
            [g EXCEPT !.lines = Append(@, InsnLine("mov eax, [" \o expr.name \o "]"))]
      [] expr.e = "BinaryOp" -> compile_binaryop_temps(g, expr)

\* expressions with k operators nested to the right, and to the left
RECURSIVE RightNested(_, _)
RightNested(operation, k) ==
    IF k = 0 THEN Literal("5", "int")
    ELSE BinaryOp(operation, Identifier("x"), RightNested(operation, k - 1))

RECURSIVE LeftNested(_, _)
LeftNested(operation, k) ==
    IF k = 0 THEN Identifier("x")
    ELSE BinaryOp(operation, LeftNested(operation, k - 1), Literal("5", "int"))

\* the explored expressions: chains of either shape, and a comparison whose
\* operands are chains
NestedExpressions ==
    {RightNested(o, k) : o \in {"+", "<"}, k \in 0..MaxOperators}
        \cup {LeftNested("*", k) : k \in 1..MaxOperators}
        \cup {BinaryOp("<=", LeftNested("-", 2), RightNested("/", k)) : k \in 1..(MaxOperators - 1)}

\* RegisterAllocator.reset
Reset ==
    /\ gen = "allocator"
    /\ reg_alloc' = NewAllocator
    /\ returned' = [kind |-> "reset"]
    /\ UNCHANGED <<gen, current_function, body_code, label_counter, loop_stack, nesting,
                   asm_lines, notGenVars>>

\* a call of RegisterAllocator.allocate
Allocate ==
    /\ gen = "allocator"
    /\ reg_alloc.spill_count < MaxSpills
    /\ reg_alloc' = allocate(reg_alloc).ra
    /\ returned' = [kind |-> "allocate", reg |-> allocate(reg_alloc).reg,
                     is_spill |-> allocate(reg_alloc).is_spill]
    /\ UNCHANGED <<gen, current_function, body_code, label_counter, loop_stack, nesting,
                   asm_lines, notGenVars>>

\* a call of RegisterAllocator.release
Release(reg) ==
    /\ gen = "allocator"
    /\ reg_alloc' = release(reg_alloc, reg)
    /\ returned' = [kind |-> "release", reg |-> reg]
    /\ UNCHANGED <<gen, current_function, body_code, label_counter, loop_stack, nesting,
                   asm_lines, notGenVars>>

\* CodeGenerator.compile_expression on a whole expression
CompileExpression(expr) ==
    /\ gen = "allocator"
    /\ LET g == compile_expression(Compiling(body_code, label_counter, reg_alloc), expr)
       IN /\ body_code' = g.lines
          /\ label_counter' = g.label_counter
          /\ reg_alloc' = g.reg_alloc
          /\ returned' = [kind |-> "expression", allocated |-> g.allocated,
                           spills |-> g.spills]
    /\ gen' = "compiled"
    /\ UNCHANGED <<current_function, loop_stack, nesting, asm_lines, notGenVars>>

\* a code generator whose allocator is about to be used
InitAlloc ==
    /\ InitAssembler /\ IdleLink /\ IdleLex /\ IdleSema /\ IdleDriver /\ IdleInterp
    /\ IdleEval /\ IdleCheck
    /\ gen = "allocator"
    /\ current_function = [name |-> "None"]
    /\ body_code = << >>
    /\ label_counter = 0
    /\ loop_stack = << >>
    /\ nesting = << >>
    /\ reg_alloc = NewAllocator
    /\ returned = [kind |-> "none"]

NextAlloc ==
    \/ Reset
    \/ Allocate
    \/ \E reg \in ReleaseArguments : Release(reg)
    \/ \E expr \in NestedExpressions : CompileExpression(expr)

SpecAlloc == InitAlloc /\ [][NextAlloc]_vars

----------------------------------------------------------------------------
(* The code generator, statement by statement (SpecGen, SpecFrame).         *)
(* compile_function compiles the body into a list of its own and places it  *)
(* between the prologue and the epilogue; nesting holds the compile_while   *)
(* and compile_if calls that are waiting for their blocks.                  *)

MaxGenStatements == 3
MaxBlocks == 2
MaxFrameLocals == 2

PushLine(reg) == [op |-> "push", arg |-> reg, n |-> 0]
PopLine(reg) == [op |-> "pop", arg |-> reg, n |-> 0]
SubRspLine(amount) == [op |-> "sub rsp", arg |-> "", n |-> amount]
StoreLine(offset) == [op |-> "store", arg |-> "rbp", n |-> offset]

\* the conditions and bool values of the explored bodies
BoolExpressions == {Identifier("b"), RightNested("<", 1)}

\* the init expressions of the explored declarations
InitExpressions == {RightNested("+", k) : k \in 0..MaxOperators}

\* the locals a function declares: SemanticAnalyzer.define_symbol gives each
\* the offset reached after it, analyze_function rounds the total up to 16
RECURSIVE DefineLocals(_, _, _)
DefineLocals(types, i, offset) ==
    IF i > Len(types) THEN << >>
    ELSE <<[type |-> types[i], size |-> get_type_size(types[i]),
            stack_offset |-> 0 - OffsetAfter(offset, types[i])]>>
         \o DefineLocals(types, i + 1, OffsetAfter(offset, types[i]))

AnalyzedFunction(name, types, count) ==
    LET locals == DefineLocals(types, 1, 0)
        last == IF locals = << >> THEN 0 ELSE 0 - locals[Len(locals)].stack_offset
    IN [name |-> name, locals |-> locals, stack_size |-> align_offset(last, 16),
        declared |-> 0, statements |-> count]

\* the sequences of at most n local types
RECURSIVE TypeLists(_)
TypeLists(n) ==
    IF n = 0 THEN {<< >>}
    ELSE TypeLists(n - 1)
         \cup {Append(l, ty) : l \in {x \in TypeLists(n - 1) : Len(x) = n - 1},
                               ty \in {"i8", "i32", "i64"}}

\* the end label of the first entry of the loop stack
outermost_label(stack) == stack[1][2]

\* compile_break and compile_continue: the labels of loop_stack[-1]
break_label(stack) == stack[Len(stack)][2]
continue_label(stack) == stack[Len(stack)][1]

\* CodeGenerator.compile_write_bool without the newline; the body holds no
\* other strings, so the labels of "True" and "False" are _str_0 and _str_1
write_bool_lines(counter) ==
    << InsnLine("test al, al"), JumpLine("jz", Numbered(".write_false", counter + 1)),
       MovImmLine("rax", 1), MovImmLine("rdi", 1),
       MovabsLine(Reg64("rsi"), Numbered("_str", 0)), MovImmLine("rdx", 4),
       InsnLine("syscall"), JmpLine(Numbered("write_bool_done", counter)),
       LabelLine(Numbered(".write_false", counter + 1)),
       MovImmLine("rax", 1), MovImmLine("rdi", 1),
       MovabsLine(Reg64("rsi"), Numbered("_str", 1)), MovImmLine("rdx", 5),
       InsnLine("syscall"), LabelLine(Numbered("write_bool_done", counter)) >>

\* CodeGenerator._emit_parse_integer for a signed type: four fresh labels,
\* and local labels built from the counter after them
emit_parse_integer(counter) ==
    LET parse_loop == Numbered("parse_loop", counter)
        parse_done == Numbered("parse_done", counter + 1)
        parse_error == Numbered("parse_error", counter + 2)
        skip_ws == Numbered("skip_ws", counter + 3)
        after == counter + 4
    IN << InsnLine("xor rax, rax"), InsnLine("xor rbx, rbx"), InsnLine("mov r13, r12"),
          LabelLine(skip_ws), InsnLine("movzx ecx, byte [r13]"), InsnLine("cmp cl, ' '"),
          JumpLine("jne", Numbered(".check_sign", after)), InsnLine("inc r13"),
          JmpLine(skip_ws),
          LabelLine(Numbered(".check_sign", after)), InsnLine("cmp cl, '-'"),
          JumpLine("jne", Numbered(".check_plus", after)), InsnLine("mov rbx, 1"),
          InsnLine("inc r13"), JmpLine(parse_loop),
          LabelLine(Numbered(".check_plus", after)), InsnLine("cmp cl, '+'"),
          JumpLine("jne", parse_loop), InsnLine("inc r13"),
          LabelLine(parse_loop), InsnLine("movzx ecx, byte [r13]"),
          InsnLine("test cl, cl"), JumpLine("jz", parse_done),
          InsnLine("cmp cl, ' '"), JumpLine("je", parse_done),
          InsnLine("cmp cl, 10"), JumpLine("je", parse_done),
          InsnLine("cmp cl, 13"), JumpLine("je", parse_done),
          InsnLine("sub cl, '0'"), InsnLine("cmp cl, 9"), JumpLine("ja", parse_error),
          InsnLine("mov r14, 10"), InsnLine("imul rax, r14"),
          InsnLine("and rcx, 0xFF"), InsnLine("add rax, rcx"),
          InsnLine("inc r13"), JmpLine(parse_loop),
          LabelLine(parse_error), InsnLine("xor eax, eax") >>
       \o SetReadFailedLines(1)
       \o << JmpLine(Numbered(".parse_return", after)),
             LabelLine(parse_done), InsnLine("cmp r13, r12"), JumpLine("jle", parse_error),
             InsnLine("test rbx, rbx"), JumpLine("jz", Numbered(".parse_positive", after)),
             InsnLine("neg rax"), LabelLine(Numbered(".parse_positive", after)) >>
       \o SetReadFailedLines(0)
       \o << LabelLine(Numbered(".parse_return", after)) >>

\* CodeGenerator.compile_readln_integer for a signed type: three fresh labels,
\* the jump to .readln_int_done written before _emit_parse_integer and the
\* label written after it, each from the label counter of its moment
compile_readln_integer(counter) ==
    LET read_loop == Numbered("readln_int_loop", counter)
        parse_start == Numbered("parse_start", counter + 1)
        read_eof == Numbered("readln_int_eof", counter + 2)
    IN << InsnLine("push rbx"), InsnLine("push r12"), InsnLine("push r13"),
          InsnLine("push r14"), InsnLine("sub rsp, 64"), InsnLine("mov r12, rsp"),
          InsnLine("mov r13, rsp"), InsnLine("xor r14, r14"),
          LabelLine(read_loop), InsnLine("xor eax, eax"), InsnLine("xor edi, edi"),
          InsnLine("mov rsi, r13"), InsnLine("mov edx, 1"), InsnLine("syscall"),
          InsnLine("test rax, rax"), JleLine(read_eof),
          InsnLine("movzx eax, byte [r13]"), InsnLine("cmp al, 10"),
          JumpLine("je", parse_start),
          InsnLine("inc r13"), InsnLine("inc r14"), InsnLine("cmp r14, 63"),
          JumpLine("jl", read_loop),
          LabelLine(read_eof), InsnLine("test r14, r14"), JumpLine("jnz", parse_start),
          InsnLine("xor eax, eax") >>
       \o SetReadFailedLines(1)
       \o << JmpLine(Numbered(".readln_int_done", counter + 3)),
             LabelLine(parse_start), InsnLine("mov byte [r13], 0") >>
       \o emit_parse_integer(counter + 3)
       \o << LabelLine(Numbered(".readln_int_done", counter + 7)),
             InsnLine("add rsp, 64"), InsnLine("pop r14"), InsnLine("pop r13"),
             InsnLine("pop r12"), InsnLine("pop rbx") >>

\* compile_function after the body: label, prologue, body, epilogue
function_lines(func, ra, body) ==
    LET saved_regs == get_save_restore_regs(ra)
    IN << LabelLine(func.name), InsnLine("push rbp"), InsnLine("mov rbp, rsp") >>
       \o [i \in 1..Len(saved_regs) |-> PushLine(saved_regs[i])]
       \o (IF func.stack_size > 0 THEN <<SubRspLine(func.stack_size)>> ELSE << >>)
       \o body
       \o << LabelLine(func.name \o "_epilog") >>
       \o (IF func.stack_size > 0
           THEN << InsnLine("mov rsp, rbp") >>
                \o (IF saved_regs # << >>
                    THEN <<SubRspLine(Len(saved_regs) * 8)>> ELSE << >>)
           ELSE << >>)
       \o [i \in 1..Len(saved_regs) |-> PopLine(saved_regs[Len(saved_regs) + 1 - i])]
       \o << InsnLine("pop rbp"), InsnLine("ret") >>

\* the statement the body goes on with
TakeStatement ==
    /\ gen = "body"
    /\ current_function.statements > 0
    /\ current_function' = [current_function EXCEPT !.statements = @ - 1]

\* CodeGenerator.compile and compile_function up to the body, for a function
\* with the locals x: i32 and b: bool and count statements
CompileBody(count) ==
    /\ gen = "constructed"
    /\ current_function' = AnalyzedFunction("main", <<"i32", "bool">>, count)
    /\ reg_alloc' = NewAllocator
    /\ label_counter' = 0
    /\ body_code' = << >>
    /\ gen' = "body"
    /\ UNCHANGED <<loop_stack, nesting, returned, asm_lines, notGenVars>>

\* the same for a function that declares locals of the given types, each with
\* an init expression, and then holds count expression statements
CompileDeclarations(types, count) ==
    /\ gen = "constructed"
    /\ current_function' = AnalyzedFunction("main", types, count)
    /\ reg_alloc' = NewAllocator
    /\ label_counter' = 0
    /\ body_code' = << >>
    /\ gen' = "body"
    /\ UNCHANGED <<loop_stack, nesting, returned, asm_lines, notGenVars>>

\* compile_while up to its body
CompileWhile(condition) ==
    /\ TakeStatement
    /\ Len(nesting) < MaxBlocks
    /\ LET cond_label == Numbered("while_cond", label_counter)
           body_label == Numbered("while_body", label_counter + 1)
           end_label == Numbered("while_end", label_counter + 2)
           g == compile_expression(
                    Compiling(Append(body_code, LabelLine(cond_label)),
                              label_counter + 3, reg_alloc), condition)
       IN /\ loop_stack' = Append(loop_stack, <<cond_label, end_label>>)
          /\ body_code' = g.lines \o << InsnLine("cmp eax, 0"), JumpLine("je", end_label),
                                        LabelLine(body_label) >>
          /\ label_counter' = g.label_counter
          /\ reg_alloc' = g.reg_alloc
          /\ nesting' = Append(nesting, [kind |-> "while", cond_label |-> cond_label,
                                         end_label |-> end_label, has_else |-> FALSE,
                                         entered_with |-> loop_stack])
    /\ returned' = [kind |-> "while"]
    /\ UNCHANGED <<gen, asm_lines, notGenVars>>

\* compile_if up to its then block
CompileIf(condition, has_else) ==
    /\ TakeStatement
    /\ Len(nesting) < MaxBlocks
    /\ LET else_label == Numbered("if_else", label_counter)
           end_label == Numbered("if_end", label_counter + 1)
           g == compile_expression(Compiling(body_code, label_counter + 2, reg_alloc),
                                   condition)
       IN /\ body_code' = g.lines \o << InsnLine("cmp eax, 0"),
                                        JumpLine("je", IF has_else THEN else_label
                                                       ELSE end_label) >>
          /\ label_counter' = g.label_counter
          /\ reg_alloc' = g.reg_alloc
          /\ nesting' = Append(nesting, [kind |-> "if", cond_label |-> else_label,
                                         end_label |-> end_label, has_else |-> has_else,
                                         entered_with |-> loop_stack])
    /\ returned' = [kind |-> "if"]
    /\ UNCHANGED <<gen, loop_stack, asm_lines, notGenVars>>

\* compile_if between its blocks
CompileElse ==
    /\ gen = "body"
    /\ nesting # << >>
    /\ nesting[Len(nesting)].kind = "if"
    /\ nesting[Len(nesting)].has_else
    /\ body_code' = body_code \o << JmpLine(nesting[Len(nesting)].end_label),
                                    LabelLine(nesting[Len(nesting)].cond_label) >>
    /\ nesting' = [nesting EXCEPT ![Len(nesting)].kind = "else"]
    /\ returned' = [kind |-> "else"]
    /\ UNCHANGED <<gen, current_function, label_counter, loop_stack, reg_alloc,
                   asm_lines, notGenVars>>

\* the end of a block: compile_while jumps back, writes its end label and
\* pops the loop stack; compile_if writes its end label
CompileBlockEnd ==
    /\ gen = "body"
    /\ nesting # << >>
    /\ LET top == nesting[Len(nesting)]
       IN /\ ~(top.kind = "if" /\ top.has_else)
          /\ IF top.kind = "while"
             THEN /\ body_code' = body_code \o << JmpLine(top.cond_label),
                                                 LabelLine(top.end_label) >>
                  /\ loop_stack' = SubSeq(loop_stack, 1, Len(loop_stack) - 1)
             ELSE /\ body_code' = Append(body_code, LabelLine(top.end_label))
                  /\ loop_stack' = loop_stack
          /\ returned' = [kind |-> "end", of |-> top.kind]
    /\ nesting' = SubSeq(nesting, 1, Len(nesting) - 1)
    /\ UNCHANGED <<gen, current_function, label_counter, reg_alloc, asm_lines, notGenVars>>

\* compile_break: RuntimeError outside of a loop
CompileBreak ==
    /\ TakeStatement
    /\ IF loop_stack = << >>
       THEN /\ gen' = "RuntimeError"
            /\ UNCHANGED body_code
       ELSE /\ body_code' = Append(body_code, JmpLine(break_label(loop_stack)))
            /\ UNCHANGED gen
    /\ returned' = [kind |-> "break"]
    /\ UNCHANGED <<label_counter, loop_stack, nesting, reg_alloc, asm_lines, notGenVars>>

\* compile_continue: RuntimeError outside of a loop
CompileContinue ==
    /\ TakeStatement
    /\ IF loop_stack = << >>
       THEN /\ gen' = "RuntimeError"
            /\ UNCHANGED body_code
       ELSE /\ body_code' = Append(body_code, JmpLine(continue_label(loop_stack)))
            /\ UNCHANGED gen
    /\ returned' = [kind |-> "continue"]
    /\ UNCHANGED <<label_counter, loop_stack, nesting, reg_alloc, asm_lines, notGenVars>>

\* compile_write for a value of type bool
CompileWriteBool(value) ==
    /\ TakeStatement
    /\ LET g == compile_expression(Compiling(body_code, label_counter, reg_alloc), value)
       IN /\ body_code' = g.lines \o write_bool_lines(g.label_counter)
          /\ label_counter' = g.label_counter + 1
          /\ reg_alloc' = g.reg_alloc
    /\ returned' = [kind |-> "write"]
    /\ UNCHANGED <<gen, loop_stack, nesting, asm_lines, notGenVars>>

\* an expression statement that calls readchar()
CompileReadcharStatement ==
    /\ TakeStatement
    /\ LET cg == CompileReadchar([Generator EXCEPT !.label_counter = label_counter])
       IN /\ body_code' = body_code \o cg.lines
          /\ label_counter' = cg.label_counter
    /\ returned' = [kind |-> "readchar"]
    /\ UNCHANGED <<gen, loop_stack, nesting, reg_alloc, asm_lines, notGenVars>>

\* compile_assignment of readln() to the local x: i32
CompileAssignReadln ==
    /\ TakeStatement
    /\ body_code' = body_code \o compile_readln_integer(label_counter)
                              \o <<StoreLine(current_function.locals[1].stack_offset)>>
    /\ label_counter' = label_counter + 7
    /\ returned' = [kind |-> "readln"]
    /\ UNCHANGED <<gen, loop_stack, nesting, reg_alloc, asm_lines, notGenVars>>

\* compile_vardecl of the next local, with an init expression
CompileVardecl(init) ==
    /\ gen = "body"
    /\ current_function.declared < Len(current_function.locals)
    /\ LET g == compile_expression(Compiling(body_code, label_counter, reg_alloc), init)
           vardecl == current_function.locals[current_function.declared + 1]
       IN /\ body_code' = Append(g.lines, StoreLine(vardecl.stack_offset))
          /\ label_counter' = g.label_counter
          /\ reg_alloc' = g.reg_alloc
    /\ current_function' = [current_function EXCEPT !.declared = @ + 1]
    /\ returned' = [kind |-> "vardecl"]
    /\ UNCHANGED <<gen, loop_stack, nesting, asm_lines, notGenVars>>

\* an expression statement
CompileExprStatement(expr) ==
    /\ TakeStatement
    /\ current_function.declared = Len(current_function.locals)
    /\ LET g == compile_expression(Compiling(body_code, label_counter, reg_alloc), expr)
       IN /\ body_code' = g.lines
          /\ label_counter' = g.label_counter
          /\ reg_alloc' = g.reg_alloc
    /\ returned' = [kind |-> "expression", allocated |-> {}, spills |-> 0]
    /\ UNCHANGED <<gen, loop_stack, nesting, asm_lines, notGenVars>>

\* compile_function after the body, and the return of compile
EmitFunction ==
    /\ gen = "body"
    /\ nesting = << >>
    /\ current_function.statements = 0
    /\ current_function.declared \in {0, Len(current_function.locals)}
    /\ asm_lines' = function_lines(current_function, reg_alloc, body_code)
    /\ gen' = "compiled"
    /\ returned' = [kind |-> "function"]
    /\ UNCHANGED <<current_function, body_code, label_counter, loop_stack, nesting,
                   reg_alloc, notGenVars>>

\* a code generator after construction
InitGen ==
    /\ InitAssembler /\ IdleLink /\ IdleLex /\ IdleSema /\ IdleDriver /\ IdleInterp
    /\ IdleEval /\ IdleCheck
    /\ gen = "constructed"
    /\ current_function = [name |-> "None"]
    /\ body_code = << >>
    /\ label_counter = 0
    /\ loop_stack = << >>
    /\ nesting = << >>
    /\ reg_alloc = NewAllocator
    /\ returned = [kind |-> "none"]

NextGen ==
    \/ \E count \in 0..MaxGenStatements : CompileBody(count)
    \/ \E condition \in BoolExpressions : CompileWhile(condition)
    \/ \E has_else \in BOOLEAN : CompileIf(Identifier("b"), has_else)
    \/ CompileElse
    \/ CompileBlockEnd
    \/ CompileBreak
    \/ CompileContinue
    \/ \E value \in BoolExpressions : CompileWriteBool(value)
    \/ CompileReadcharStatement
    \/ CompileAssignReadln
    \/ EmitFunction

SpecGen == InitGen /\ [][NextGen]_vars

NextFrame ==
    \/ \E types \in TypeLists(MaxFrameLocals), count \in 0..1 :
            CompileDeclarations(types, count)
    \/ \E init \in InitExpressions : CompileVardecl(init)
    \/ \E expr \in InitExpressions : CompileExprStatement(expr)
    \/ EmitFunction

SpecFrame == InitGen /\ [][NextFrame]_vars

----------------------------------------------------------------------------
(* Properties of the assembler (Spec).                                      *)

\* the label-targeted jumps of the final pass, as indices into emitted
EmittedJumps ==
    {k \in 1..Len(emitted) :
        /\ IsJump(asm_lines[emitted[k].line])
        /\ asm_lines[emitted[k].line].arg \in DOMAIN labels}

\* address of the target label of emitted jump k in the final code
TargetOf(k) == labels[asm_lines[emitted[k].line].arg]

\* C1: after assemble_code with relaxation has converged, every label-targeted
\* jmp or Jcc emitted in the 2-byte short form has a required displacement
\* (target address minus address of the byte after the jump) in [-128, 127].
C1_ShortJumpsInRange ==
    (pc = "done" /\ enable_relaxation /\ converged) =>
        \A k \in EmittedJumps :
            emitted[k].len = 2 => Fits8(TargetOf(k) - (emitted[k].addr + 2))

\* C2: across relaxation iterations the form recorded for a given jump never
\* goes from near back to short.
C2_NearStaysNear ==
    [][\A i \in DOMAIN recorded :
          (recorded[i].form = "near" /\ i \in DOMAIN recorded')
              => recorded'[i].form = "near"]_vars

\* C3: with relaxation, a forward jmp whose label lies exactly 127 bytes after
\* the end of the jump is emitted short (2 bytes), and one whose label lies
\* exactly 128 bytes after its end is emitted near (5 bytes).
C3_BoundaryForms ==
    (pc = "done" /\ enable_relaxation) =>
        \A k \in EmittedJumps :
            (asm_lines[emitted[k].line].op = "jmp" /\ emitted[k].len > 0) =>
                LET distance == TargetOf(k) - (emitted[k].addr + emitted[k].len)
                IN /\ distance = 127 => emitted[k].len = 2
                   /\ distance = 128 => emitted[k].len = 5

\* C4: once the jump-form table has converged, one more relaxation iteration
\* (form recomputation plus label re-walk) yields the same form table, the
\* same label addresses and the same total code size.
C4_RelaxationIdempotent ==
    (pc = "generate" /\ enable_relaxation /\ converged) =>
        LET r == RelaxOnce(asm_lines, labels, jump_forms, string_relocations)
            again == GenerateFrom(asm_lines, 1, Walker(r.labels, r.forms, << >>))
            once == GenerateFrom(asm_lines, 1, Walker(labels, jump_forms, << >>))
        IN /\ r.forms = jump_forms
           /\ r.labels = labels
           /\ r.addr = current_address
           /\ Len(again.code) = Len(once.code)

\* C4 witness: a table holding a promoted (near) and a short jump converged
\* after more than two iterations
C4_Witness ==
    /\ pc = "generate" /\ enable_relaxation /\ converged
    /\ iteration >= 3
    /\ \E i, j \in DOMAIN jump_forms :
          jump_forms[i] = "near" /\ jump_forms[j] = "short"

----------------------------------------------------------------------------
(* Properties of the pipeline (SpecLink).                                   *)

\* the movabs instructions of the final pass, as indices into emitted
EmittedMovabs ==
    {k \in 1..Len(emitted) : asm_lines[emitted[k].line].op = "movabs"}

\* the relocation entry that belongs to emitted instruction k
RelocationOf(k) == <<emitted[k].addr + 2, asm_lines[emitted[k].line].arg>>

\* C5: after assemble_code, every `movabs r64, @label` line has exactly one
\* relocation entry (offset, label), its offset is the instruction's start in
\* the emitted code plus 2 (the placeholder is bytes 2..10 of the encoding),
\* and the list holds no other (stale) entry.
C5_OneRelocationPerMovabs ==
    pc = "done" =>
        /\ \A k \in EmittedMovabs :
              /\ Cardinality({i \in 1..Len(string_relocations) :
                                string_relocations[i] = RelocationOf(k)}) = 1
              /\ SubSeq(machine_code, emitted[k].addr + 1, emitted[k].addr + 10)
                    = AssembleMovabs(asm_lines[emitted[k].line].n)
        /\ \A i \in 1..Len(string_relocations) :
              \E k \in EmittedMovabs : string_relocations[i] = RelocationOf(k)

\* C5 witness: a program with several movabs lines, to strings and to the
\* flag, assembled with more than one relaxation iteration
C5_Witness ==
    /\ pc = "done" /\ phase = "assemble" /\ iteration >= 2
    /\ Cardinality(EmittedMovabs) >= 3
    /\ \E i, j \in 1..Len(string_relocations) :
          /\ string_relocations[i][2] = "_read_failed"
          /\ string_relocations[j][2] = "_str_1"

\* the address a relocation label stands for
ExpectedAddress(label) ==
    IF label = "_read_failed" THEN bss_vaddr
    ELSE rodata_vaddr + string_offsets[label]

\* C6: after emission and patching, for every relocation (code_offset, label)
\* the 8 bytes at file offset 0x1000 + 16 + code_offset are the little-endian
\* address bss_vaddr for `_read_failed` and rodata_vaddr + string_offsets[label]
\* otherwise, with rodata_vaddr = 0x400000 + 0x1000 + 16 + len(code).
C6_PatchedAddresses ==
    phase = "patched" =>
        /\ rodata_vaddr = 4194304 + 4096 + 16 + Len(machine_code)
        /\ \A i \in 1..Len(string_relocations) :
              LET at == 4096 + 16 + string_relocations[i][1]
              IN /\ SubSeq(executable, at + 5, at + 8) = <<0, 0, 0, 0>>
                 /\ executable[at + 4] < 128
                 /\ ReadLE(executable, at, 4)
                       = ExpectedAddress(string_relocations[i][2])

\* C6 witness: a patched file with a flag relocation and a relocation of a
\* string that is not the first one in rodata
C6_Witness ==
    /\ phase = "patched"
    /\ \E i, j \in 1..Len(string_relocations) :
          /\ string_relocations[i][2] = "_read_failed"
          /\ string_relocations[j][2] # "_read_failed"
          /\ string_offsets[string_relocations[j][2]] > 0

\* code offset reached by the `call` of the entry stub (file offset 0x1000 + 2)
StubCallTarget ==
    (PAGE_SIZE + 7 + ReadLE(executable, PAGE_SIZE + 3, 4)) - CodeFileOffset

\* C9: the stub's call with displacement +9 reaches the first instruction of
\* `main`: the code of `main` begins at code offset 0, whatever the number
\* and order of the functions in the source.
C9_StubCallsMain ==
    phase = "patched" =>
        /\ executable[PAGE_SIZE + 3] = 232
        /\ StubCallTarget = labels["main"]
        /\ labels["main"] = 0

\* file offset of the second program header
BssPhdrOffset == 64 + 56

\* C10: with bss_size > 0 the ELF has exactly two program headers and the
\* writable segment starts at a multiple of 0x1000 not below the end of
\* code+rodata (disjoint from the R+X segment), with file size 0 and memory
\* size bss_size; with bss_size = 0 there is exactly one program header; a
\* BSS section is requested exactly when the program uses a read primitive.
C10_BssSegment ==
    phase \in {"written", "patched"} =>
        /\ ReadLE(executable, 56, 2) = (IF bss_size > 0 THEN 2 ELSE 1)
        /\ bss_size > 0 =>
              LET vaddr == ReadLE(executable, BssPhdrOffset + 16, 8)
              IN /\ ReadLE(executable, BssPhdrOffset, 4) = 1
                 /\ ReadLE(executable, BssPhdrOffset + 4, 4) = 6
                 /\ vaddr % 4096 = 0
                 /\ vaddr >= 4194304 + 4096 + 16 + Len(machine_code) + Len(rodata)
                 /\ vaddr >= ReadLE(executable, 64 + 16, 8) + ReadLE(executable, 64 + 40, 8)
                 /\ vaddr = bss_vaddr
                 /\ ReadLE(executable, BssPhdrOffset + 32, 8) = 0
                 /\ ReadLE(executable, BssPhdrOffset + 40, 8) = bss_size
        /\ (bss_size > 0) <=> UsesRead(functions)

\* C10 witness: a written file with a BSS segment behind non-empty rodata
C10_Witness ==
    /\ phase = "written"
    /\ bss_size > 0
    /\ rodata # << >>
    /\ ReadLE(executable, 56, 2) = 2

----------------------------------------------------------------------------
(* Properties of the lexer (SpecLex).                                       *)

CountTokens(type) == Cardinality({i \in 1..Len(tokens) : tokens[i] = type})

\* C7: when tokenize() succeeds the token list holds exactly one EOF token,
\* it is the last token, and there are as many INDENT as DEDENT tokens (the
\* levels still open at the end of input are closed before EOF).
C7_BalancedIndentation ==
    lex = "done" =>
        /\ CountTokens("EOF") = 1
        /\ tokens[Len(tokens)] = "EOF"
        /\ CountTokens("INDENT") = CountTokens("DEDENT")
        /\ indent_stack = <<0>>

\* C7 witness: a source that ends two levels deep, closed by two DEDENT
\* tokens right before EOF
C7_Witness ==
    /\ lex = "done"
    /\ CountTokens("INDENT") = 2
    /\ Len(tokens) >= 3
    /\ tokens[Len(tokens) - 1] = "DEDENT"
    /\ tokens[Len(tokens) - 2] = "DEDENT"

----------------------------------------------------------------------------
(* Properties of the frame layout (SpecSema).                               *)

Locals == {i \in 1..Len(symbols) : ~symbols[i].is_param}

\* C8: for an analyzed function the frame size is a multiple of 16 and every
\* local's offset o satisfies -stack_size <= o < 0 and
\* o mod min(size(type), 8) = 0, for any declared types and block nesting.
C8_FrameLayout ==
    sema = "analyzed" =>
        /\ stack_size % 16 = 0
        /\ \A i \in Locals :
              LET o == symbols[i].stack_offset
              IN /\ -stack_size <= o
                 /\ o < 0
                 /\ (-o) % Min(get_type_size(symbols[i].type), 8) = 0

\* C8 witness: in the second function analyzed, an i64 declared in the body
\* after an i8 of a nested block (padding in between), in a frame of 32 bytes
C8_Witness ==
    /\ sema = "analyzed"
    /\ analyzed_functions = 2
    /\ stack_size = 32
    /\ \E i, j \in Locals :
          /\ i < j
          /\ symbols[i].type = "i8" /\ symbols[i].scope = 3
          /\ symbols[j].type = "i64" /\ symbols[j].scope = 2
          /\ symbols[j].stack_offset = -16

----------------------------------------------------------------------------
(* Properties of the read-only data (SpecLink).                             *)

\* C18: in the emitted rodata the bytes of every string literal are followed
\* by a NUL byte before the bytes of the next string begin.
C18_LiteralsNulTerminated ==
    phase \in {"compiled", "written", "patched"} =>
        \A i \in 1..Len(string_data) :
            LET end == string_offsets[string_data[i].label]
                           + Len(Utf8(string_data[i].content))
            IN end < Len(rodata) /\ rodata[end + 1] = 0

----------------------------------------------------------------------------
(* Properties of the command line driver and the interpreter (SpecDriver).  *)

Printed(message) == \E i \in 1..Len(printed) : printed[i] = message

\* a stage of the pipeline fails on this run
StageFailed ==
    \/ fault \in {"lex", "parse"}
    \/ (drv = "exit" /\ command # "run" /\ mode = "compile"
           /\ fault \in {"sema", "codegen"})
    \/ \E i \in 1..Len(encodings) : encodings[i] = "None"

\* C11: if a pipeline stage fails (a lexical, syntactic or semantic error, or
\* the encoder returning None for a generated instruction), the run ends
\* with a non-zero exit code and no output binary is written.
C11_FailureStops ==
    (drv = "exit" /\ StageFailed) => (exit_code # 0 /\ ~output_written)

\* C16: `run` on a source whose mode is compile prints a warning and then
\* interprets the program: its (empty) list of top-level statements is
\* executed and the run succeeds.
C16_RunInterpretsAnyway ==
    (drv = "exit" /\ command = "run" /\ mode = "compile"
        /\ fault \notin {"lex", "parse"}) =>
            (Printed("Warning") /\ exit_code = 0)

----------------------------------------------------------------------------
(* Properties of the interpreter (SpecDriver).                              *)

\* the statement the interpreter executes next, if the block has one
AtStatement == drv = "interpret" /\ Top(Machine).rest # << >>
NextStatement == Head(Top(Machine).rest)

\* the next statement evaluates a call of a defined function
AtCallOfDefined ==
    /\ AtStatement
    /\ NextStatement.kind \in {"VarDecl", "Assignment", "Return"}
    /\ NextStatement.expr.e = "Call"
    /\ NextStatement.expr.name \in DOMAIN script.functions

\* the call frames being executed
CallFrames == {i \in 1..Len(frames) : frames[i].kind = "call"}

\* C13: once a function call has completed, by reaching the end of the body,
\* by `give`, or by an error, break or continue leaving the callee, the
\* variable environment is exactly the environment before the call.
C13_CallRestoresVariables ==
    \A c \in calls : c.after = c.before

\* a callee changed a caller's variable and was left by an exception other
\* than `give`; the program has stopped
C13_Witness ==
    /\ drv = "exit"
    /\ \E c \in calls :
          /\ c.how \in {"RuntimeError", "BreakException", "ContinueException"}
          /\ c.before # EmptyMap
          /\ c.inside # c.before
          /\ c.after = c.before

\* C14: call_depth never exceeds max_call_depth, it is back at its value
\* before the call after every call, and a call attempted at the bound fails
\* with a runtime error without executing the callee.
C14_DepthInvariant ==
    /\ call_depth \in 0..max_call_depth
    /\ Cardinality(CallFrames) = call_depth
    /\ \A c \in calls : c.depth_after = c.depth_before /\ c.depth_before < max_call_depth
    /\ drv = "exit" => call_depth = 0

C14_CallAtBound ==
    (AtCallOfDefined /\ call_depth = max_call_depth) =>
        /\ drv' = "exit"
        /\ exit_code' = 1
        /\ printed' = Report("Runtime error: Stack overflow in script mode")
        /\ call_depth' = 0

C14_CallDepthBounded == []C14_DepthInvariant /\ [][C14_CallAtBound]_vars

\* a call was refused at the bound after max_call_depth nested calls
C14_Witness ==
    /\ drv = "exit"
    /\ Printed("Runtime error: Stack overflow in script mode")
    /\ \E c \in calls : c.depth_before = max_call_depth - 1

\* C15: a bare expression statement of a script, such as the call `f()`, is
\* executed: the body of f runs and execution continues.
C15_BareCallExecuted ==
    [][(/\ AtStatement
        /\ NextStatement.kind = "ExprStatement"
        /\ NextStatement.expr.e = "Call"
        /\ NextStatement.expr.name \in DOMAIN script.functions
        /\ call_depth < max_call_depth)
       => (drv' = "interpret" /\ call_depth' = call_depth + 1)]_vars

----------------------------------------------------------------------------
(* Properties of the operations (SpecOps).                                  *)

\* C12: for every non-I/O operation on operand values of an integer type the
\* interpreter's result equals the result of the compiled lowering of the
\* same operation, negative operands and out-of-range results included.
C12_InterpreterMatchesCompiled ==
    eval = "done" => interpreted = compiled

----------------------------------------------------------------------------
(* Properties of the semantic analyzer (SpecAnalyze).                       *)

CoercedTypes == INTEGER_TYPES \ {"i32"}
IsIntLiteral(expr) == expr.e = "Literal" /\ expr.type = "int"
TypeMismatches ==
    {"Type mismatch in variable", "Type mismatch in assignment",
     "Type mismatch in binary operation", "Return type mismatch"}
TypeRejected == analysis = "error" /\ semantic_error \in TypeMismatches

\* the value of the statement analyzed last was checked against a type
ValueChecked ==
    /\ analyzed.kind \in {"VarDecl", "Assignment", "Return"}
    /\ analyzed.value # NoExpr
    /\ semantic_error # "Cannot assign to immutable variable"

\* a binary operation with an integer literal beside an identifier of type t
LiteralBeside(binop, t) ==
    \/ IsIntLiteral(binop.left) /\ binop.right.e = "Identifier"
                                /\ binop.right.inferred_type = t
    \/ IsIntLiteral(binop.right) /\ binop.left.e = "Identifier"
                                 /\ binop.left.inferred_type = t
LiteralOperand(binop) == IF IsIntLiteral(binop.left) THEN binop.left ELSE binop.right

\* C17: an integer literal as declaration initializer, assignment value,
\* return value or binary operand where another integer type is expected is
\* accepted and its inferred_type becomes the expected type; a non-literal
\* expression of another type in one of these positions is rejected.
C17_LiteralCoercion ==
    /\ (ValueChecked /\ IsIntLiteral(analyzed.value)
            /\ analyzed.expected \in CoercedTypes) =>
          (~TypeRejected /\ analyzed.value.inferred_type = analyzed.expected)
    /\ (analyzed.kind # "none" /\ analyzed.value.e = "BinaryOp") =>
          \A t \in CoercedTypes :
              LiteralBeside(analyzed.value, t) =>
                  /\ semantic_error # "Type mismatch in binary operation"
                  /\ LiteralOperand(analyzed.value).inferred_type = t
    /\ (ValueChecked /\ ~IsIntLiteral(analyzed.value)
            /\ analyzed.value.inferred_type \in INTEGER_TYPES
            /\ analyzed.expected \in INTEGER_TYPES
            /\ analyzed.value.inferred_type # analyzed.expected) => TypeRejected
    /\ (analyzed.kind # "none" /\ analyzed.value.e = "BinaryOp"
            /\ analyzed.value.left.e = "Identifier"
            /\ analyzed.value.right.e = "Identifier"
            /\ analyzed.value.left.inferred_type \in INTEGER_TYPES
            /\ analyzed.value.right.inferred_type \in INTEGER_TYPES
            /\ analyzed.value.left.inferred_type # analyzed.value.right.inferred_type)
          => TypeRejected

\* some block of the source text around the current statement is a loop body
InLoopBody == \E i \in 1..Len(blocks) : blocks[i].kind = "while"

\* C19: `break` and `continue` are rejected exactly when they are not nested,
\* at any block depth, in a loop body of the function; the loop depth counter
\* is never negative and is 0 after each function.
C19_BreakOnlyInLoop ==
    /\ analyzed.kind \in {"Break", "Continue"} => (analysis = "error" <=> ~InLoopBody)
    /\ analyzed.kind = "Break" /\ analysis = "error" =>
          semantic_error = "Break outside of loop"
    /\ analyzed.kind = "Continue" /\ analysis = "error" =>
          semantic_error = "Continue outside of loop"
    /\ in_loop >= 0
    /\ analysis = "pass2" => in_loop = 0

\* a break accepted in a `when` block inside a loop body
C19_Witness ==
    /\ analyzed.kind = "Break"
    /\ analysis = "function"
    /\ CurrentBlock.kind \in {"when", "else"}
    /\ InLoopBody

\* C20: every function and block has its own scope, closed at its end, and
\* after analysis the current scope is the global one; a declaration of a
\* name already declared in the same block is rejected, one in a nested
\* block is accepted and shadows; a name is resolvable only inside the block
\* that declares it.
C20_Scoping ==
    /\ analysis \in {"pass2", "function"} => Len(scopes) = 1 + Len(blocks)
    /\ analysis = "pass2" => scopes = <<EmptyMap>>
    /\ analysis = "function" =>
          \A n \in LocalNames \cup Params :
              Lookup(scopes, n) # NoSymbol <=>
                  \E i \in 1..Len(blocks) : n \in blocks[i].declared
    /\ (analyzed.kind = "VarDecl" /\ ~TypeRejected
            /\ semantic_error # "Undefined variable") =>
          /\ analysis = "error" <=> ~analyzed.fresh
          /\ analysis = "error" => semantic_error = "Symbol already defined in this scope"
          /\ analysis = "function" =>
                Lookup(scopes, analyzed.name) = Symbol(analyzed.expected, TRUE)

\* a declaration accepted in a nested block that shadows a symbol of another
\* type declared in an enclosing block
C20_Witness ==
    /\ analyzed.kind = "VarDecl"
    /\ analysis = "function"
    /\ \E i \in 1..(Len(blocks) - 1) :
          /\ analyzed.name \in blocks[i].declared
          /\ Lookup(SubSeq(scopes, 1, i + 1), analyzed.name).type # analyzed.expected
    /\ Lookup(scopes, analyzed.name).type = analyzed.expected

----------------------------------------------------------------------------
(* Properties of the final emission pass (Spec).                            *)

\* the signed value of a rel8 byte
Signed8(b) == IF b >= 128 THEN b - 256 ELSE b

\* the signed value of a little-endian rel32
Signed32(bytes) ==
    LET low == bytes[1] + 256 * bytes[2] + 65536 * bytes[3]
                   + 16777216 * (bytes[4] % 128)
    IN IF bytes[4] >= 128 THEN (low - 2147483647) - 1 ELSE low

\* the displacement held by the bytes of emitted jump k (rel8 after a 1-byte
\* opcode, rel32 as the last four bytes of the near forms)
EncodedDisplacement(k) ==
    LET first == emitted[k].addr + 1
        last == emitted[k].addr + emitted[k].len
    IN IF emitted[k].len = 2 THEN Signed8(machine_code[last])
       ELSE Signed32(SubSeq(machine_code, last - 3, last))

\* the displacement emitted jump k needs in the final code
RequiredDisplacement(k) == TargetOf(k) - (emitted[k].addr + emitted[k].len)

\* C21: with relaxation enabled, every jmp or Jcc whose target is a label of
\* the program is encoded, and with a displacement equal to the label's
\* address in the final code minus the address of the byte after the jump.
C21_DisplacementsMatchLayout ==
    (pc = "done" /\ enable_relaxation) =>
        \A k \in EmittedJumps :
            /\ emitted[k].len > 0
            /\ EncodedDisplacement(k) = RequiredDisplacement(k)

\* C22: the instruction index under which the relaxation iteration stored a
\* jump's form is the index of that jump in the label re-walk and in the
\* final pass, and the jump is emitted in the form stored for it.
C22_StableInstructionIndex ==
    (pc = "done" /\ enable_relaxation) =>
        \A k \in 1..Len(emitted) :
            emitted[k].line \in DOMAIN recorded =>
                LET chosen == recorded[emitted[k].line]
                IN /\ chosen.rewalk = chosen.idx
                   /\ emitted[k].idx = chosen.idx
                   /\ (emitted[k].len = 2) <=> (chosen.form = "short")

\* the assembly programs handed to the relaxation loop: the lines of a
\* program with forward and backward jumps around a 122-byte sled, any
\* selection of them in their order
RelaxLines ==
    << JmpLine("f"), LabelLine("f"), JmpLine("end"), NopLines(122),
       LabelLine("end"), JmpLine("f"), JccLine("f"), JmpLine("end") >>

RECURSIVE Selection(_, _, _)
Selection(lines, chosen, i) ==
    IF i > Len(lines) THEN << >>
    ELSE (IF i \in chosen THEN <<lines[i]>> ELSE << >>)
            \o Selection(lines, chosen, i + 1)

RelaxPrograms ==
    {Selection(RelaxLines, chosen, 1) : chosen \in SUBSET (1..Len(RelaxLines)) \ {{}}}

\* the assembler handed one of the programs
InitRelax ==
    /\ pc = "codegen"
    /\ asm_lines \in RelaxPrograms
    /\ enable_relaxation = TRUE
    /\ labels = EmptyMap
    /\ jump_forms = EmptyMap
    /\ current_address = 0
    /\ current_instr_index = 0
    /\ string_relocations = << >>
    /\ iteration = 0
    /\ converged = FALSE
    /\ machine_code = << >>
    /\ emitted = << >>
    /\ recorded = EmptyMap
    /\ IdleLink /\ IdleLex /\ IdleSema /\ IdleTools

NextRelax ==
    \/ \E enable \in BOOLEAN : AssembleCode(enable)
    \/ RelaxIteration
    \/ GenerateCode

\* the step of the loop counter that every RelaxIteration takes, and no
\* other action
NextIteration ==
    /\ pc = "relax"
    /\ iteration < max_iterations
    /\ iteration' = iteration + 1

\* the loop of assemble_code runs on: once entered, its next iteration is run
SpecRelax == InitRelax /\ [][NextRelax]_vars /\ WF_iteration(NextIteration)

\* the loop counter stays in range(max_iterations) while the loop runs, and
\* the loop is left converged or with the range exhausted
C23_LoopBounds ==
    /\ iteration <= max_iterations
    /\ pc = "relax" => iteration < max_iterations /\ ~converged
    /\ (pc \in {"generate", "done"} /\ enable_relaxation) =>
          /\ iteration >= 1
          /\ converged \/ iteration = max_iterations

\* an iteration leaves the loop exactly when its table equals the table it
\* started with, or when it was the tenth
C23_ExitAtFirstFixpoint ==
    (pc = "relax" /\ iteration' = iteration + 1) =>
        /\ pc' = "generate" <=> (jump_forms' = jump_forms \/ iteration' = max_iterations)
        /\ pc' = "relax" <=> ~(jump_forms' = jump_forms \/ iteration' = max_iterations)
        /\ converged' <=> (jump_forms' = jump_forms)

----------------------------------------------------------------------------
(* Properties of the lexer's indentation handling (SpecLex).                *)

\* position (1-based) of the first character at or after p that is neither a
\* space nor a tab, Len(source) + 1 if there is none
RECURSIVE FirstContent(_)
FirstContent(p) ==
    IF p > Len(source) THEN p
    ELSE IF source[p] \in {" ", "\t"} THEN FirstContent(p + 1)
    ELSE p

\* position of the newline that ends the line holding position p
RECURSIVE EndOfLine(_)
EndOfLine(p) ==
    IF p > Len(source) THEN p
    ELSE IF source[p] = "\n" THEN p
    ELSE EndOfLine(p + 1)

\* the lexer is about to read a line from its first character
AtLineStart ==
    /\ lex = "running"
    /\ pending_tokens = << >>
    /\ at_line_start
    /\ pos < Len(source)

\* the indentation of the line about to be read (spaces only)
LineIndent == FirstContent(pos + 1) - (pos + 1)

\* the line about to be read has content (it is neither blank nor a comment)
ContentLineAhead ==
    /\ AtLineStart
    /\ FirstContent(pos + 1) <= Len(source)
    /\ source[FirstContent(pos + 1)] \notin {"\n", "#"}

\* the line about to be read is blank or holds only a comment
BlankLineAhead ==
    /\ AtLineStart
    /\ FirstContent(pos + 1) <= Len(source) => source[FirstContent(pos + 1)] \in {"\n", "#"}

\* the step is a call of next_token: it returned a token or raised
TokenRead == lex' # lex \/ tokens' # tokens

StrictlyIncreasing(stack) ==
    \A i \in 1..(Len(stack) - 1) : stack[i] < stack[i + 1]

\* the indentation stack is strictly increasing from its bottom entry 0, and
\* only DEDENT tokens ever wait in the pending queue
C24_StackShape ==
    /\ indent_stack # << >> /\ indent_stack[1] = 0
    /\ StrictlyIncreasing(indent_stack)
    /\ \A i \in 1..Len(pending_tokens) : pending_tokens[i] = "DEDENT"

\* a line indented less than the top of the stack: pop down to the entry
\* equal to its indentation, one DEDENT per popped entry (the first returned,
\* the others pending), or fail if no entry is equal; pending DEDENTs are
\* returned before anything more is read
C24_DedentStep ==
    /\ (ContentLineAhead /\ LineIndent < indent_stack[Len(indent_stack)] /\ TokenRead) =>
          IF \E i \in 1..Len(indent_stack) : indent_stack[i] = LineIndent
          THEN LET i == CHOOSE j \in 1..Len(indent_stack) : indent_stack[j] = LineIndent
               IN /\ lex' = "running"
                  /\ indent_stack' = SubSeq(indent_stack, 1, i)
                  /\ tokens' = Append(tokens, "DEDENT")
                  /\ Len(pending_tokens') = Len(indent_stack) - i - 1
                  /\ pos' = FirstContent(pos + 1) - 1
          ELSE lex' = "failed" /\ tokens' = tokens
    /\ (lex = "running" /\ pending_tokens # << >> /\ tokens' # tokens) =>
          /\ tokens' = Append(tokens, "DEDENT")
          /\ pending_tokens' = Tail(pending_tokens)
          /\ pos' = pos /\ indent_stack' = indent_stack

\* C24: a line indented less than the top of the indentation stack pops
\* entries until the top equals its indentation and yields exactly one DEDENT
\* per popped entry, all before the line's first content token; if no entry
\* equals its indentation, lexing fails; the stack is always strictly
\* increasing from its bottom entry 0.
C24_DedentPerPop == []C24_StackShape /\ [][C24_DedentStep]_vars

\* C24 witness: a line two levels further out was read: two DEDENTs, then
\* its identifier
C24_Witness ==
    /\ lex \in {"running", "done"}
    /\ \E k \in 1..(Len(tokens) - 3) :
          /\ tokens[k] = "NEWLINE" /\ tokens[k + 1] = "DEDENT"
          /\ tokens[k + 2] = "DEDENT" /\ tokens[k + 3] = "IDENTIFIER"

\* C25: a blank line (empty or spaces only) or a comment-only line, anywhere
\* up to and including the last line of the source, leaves the indentation
\* stack unchanged, yields no INDENT or DEDENT, and lexing goes on.
C25_BlankLinesIgnored ==
    [][(BlankLineAhead /\ TokenRead) =>
          /\ lex' # "failed"
          /\ pos' <= EndOfLine(pos + 1) =>
                /\ indent_stack' = indent_stack
                /\ tokens' \in {tokens, Append(tokens, "NEWLINE")}]_vars
----------------------------------------------------------------------------
(* Properties of the register allocator (SpecAlloc).                        *)

RegisterPool == {TEMP_REGS_64[i] : i \in 1..Len(TEMP_REGS_64)}
FreeSet == {reg_alloc.free_regs[i] : i \in 1..Len(reg_alloc.free_regs)}

C28_PoolPartition ==
    /\ FreeSet \cap reg_alloc.used_regs = {}
    /\ FreeSet \cup reg_alloc.used_regs = RegisterPool
    /\ Cardinality(FreeSet) = Len(reg_alloc.free_regs)

AllocatorCalled == <<returned, reg_alloc>>' # <<returned, reg_alloc>>

C28_Step ==
    /\ (AllocatorCalled /\ returned'.kind = "allocate") =>
          /\ returned'.is_spill <=> (reg_alloc.free_regs = << >>)
          /\ returned'.is_spill <=> (returned'.reg = "_spill_")
          /\ ~returned'.is_spill =>
                /\ returned'.reg \in RegisterPool \ reg_alloc.used_regs
                /\ returned'.reg \in reg_alloc'.used_regs
                /\ returned'.reg \in reg_alloc'.saved_regs
    /\ (returned'.kind # "reset") => (reg_alloc.saved_regs \subseteq reg_alloc'.saved_regs)
    /\ (AllocatorCalled /\ returned'.kind = "expression") =>
          /\ returned'.allocated \subseteq reg_alloc'.saved_regs
          /\ returned'.allocated \cap reg_alloc'.used_regs = {}
          /\ reg_alloc'.used_regs = reg_alloc.used_regs
          /\ (returned'.spills > 0) => (returned'.allocated \cup reg_alloc.used_regs = RegisterPool)

\* C28: free_regs and used_regs are disjoint and together exactly the pool of
\* five registers after any sequence of calls; allocate returns the spill
\* signal exactly when free_regs is empty, and otherwise a register that was
\* not held; every register allocated since the last reset is in saved_regs;
\* after compiling a complete expression every register allocated for it has
\* been released.
C28_AllocatorInvariants == []C28_PoolPartition /\ [][C28_Step]_vars

\* an expression compiled while registers were held, that used free
\* registers and spilled beyond them
C28_Witness ==
    /\ gen = "compiled"
    /\ returned.kind = "expression"
    /\ returned.spills > 0
    /\ returned.allocated # {}
    /\ reg_alloc.used_regs # {}

----------------------------------------------------------------------------
(* Properties of the code generator (SpecGen, SpecFrame).                   *)

\* the loops that enclose the statement being compiled, outermost first
EnclosingLoops == SelectSeq(nesting, LAMBDA b : b.kind = "while")

C26_LoopStackShape ==
    /\ Len(loop_stack) = Len(EnclosingLoops)
    /\ \A i \in 1..Len(loop_stack) :
          loop_stack[i] = <<EnclosingLoops[i].cond_label, EnclosingLoops[i].end_label>>
    /\ (gen = "compiled") => (loop_stack = << >>)

C26_Step ==
    /\ (body_code' # body_code /\ returned'.kind = "break") =>
          /\ EnclosingLoops # << >>
          /\ body_code' = Append(body_code,
                                 JmpLine(EnclosingLoops[Len(EnclosingLoops)].end_label))
    /\ (body_code' # body_code /\ returned'.kind = "continue") =>
          /\ EnclosingLoops # << >>
          /\ body_code' = Append(body_code,
                                 JmpLine(EnclosingLoops[Len(EnclosingLoops)].cond_label))
    /\ (Len(nesting') > Len(nesting)) =>
          IF nesting'[Len(nesting')].kind = "while"
          THEN /\ Len(loop_stack') = Len(loop_stack) + 1
               /\ SubSeq(loop_stack', 1, Len(loop_stack)) = loop_stack
          ELSE loop_stack' = loop_stack
    /\ (Len(nesting') < Len(nesting)) =>
          loop_stack' = nesting[Len(nesting)].entered_with
    /\ (Len(nesting') = Len(nesting)) => (loop_stack' = loop_stack)

\* C26: break jumps to the end label and continue to the condition label of
\* the innermost enclosing loop, under any nesting of loops and conditionals;
\* the loop stack grows and shrinks at its end only, holds the enclosing loops,
\* and after a loop, and after the function, is what it was before.
C26_InnermostLoopLabels == []C26_LoopStackShape /\ [][C26_Step]_vars

\* a break compiled in the inner of two nested loops
C26_Witness ==
    /\ gen = "body"
    /\ returned.kind = "break"
    /\ Len(loop_stack) = 2
    /\ body_code # << >>
    /\ body_code[Len(body_code)] = JmpLine(loop_stack[2][2])
    /\ loop_stack[2][2] # loop_stack[1][2]

JumpMnemonics == {"jmp", "call", "je", "jne", "jl", "jle", "jg", "jge", "jz", "jnz", "ja"}
ReferencedLabels(lines) ==
    {lines[i].arg : i \in {j \in 1..Len(lines) : lines[j].op \in JumpMnemonics}}
Definitions(lines, l) == {j \in 1..Len(lines) : lines[j] = LabelLine(l)}

\* C30: every label that a jump or call of the compiled assembly refers to is
\* defined by exactly one label line of that assembly.
C30_LabelsDefinedOnce ==
    (gen = "compiled") =>
        \A l \in ReferencedLabels(asm_lines) : Cardinality(Definitions(asm_lines, l)) = 1

\* the bytes the prologue takes: eight for each saved register, and the
\* amount of its sub rsp
PushedRegisters == {i \in 1..Len(asm_lines) : asm_lines[i].op = "push"}
FrameSize ==
    8 * Cardinality(PushedRegisters)
    + (IF \E i \in 1..Len(asm_lines) : asm_lines[i].op = "sub rsp"
       THEN asm_lines[CHOOSE i \in 1..Len(asm_lines) :
                         /\ asm_lines[i].op = "sub rsp"
                         /\ \A j \in 1..(i - 1) : asm_lines[j].op # "sub rsp"].n
       ELSE 0)

\* C27: the frame the prologue allocates, the pushed saved registers and the
\* amount subtracted from rsp, satisfies (framesize + 8) mod 16 = 0.
C27_FramePadded == (gen = "compiled") => ((FrameSize + 8) % 16 = 0)

\* C29: no local's bytes [rbp+offset, rbp+offset+size) meet the slot
\* [rbp-8k, rbp-8k+8) of the k-th saved register.
C29_LocalsClearOfSavedRegisters ==
    (gen = "compiled") =>
        \A i \in 1..Len(current_function.locals), k \in 1..Cardinality(PushedRegisters) :
            LET local == current_function.locals[i]
            IN \/ local.stack_offset + local.size <= 0 - 8 * k
               \/ 8 - 8 * k <= local.stack_offset

====
